---- MODULE Spec2Model ----
(***************************************************************************)
(* Model of the pipely storage layer (src/pipeline_tools/storage.py) and   *)
(* of the CLI commands that drive it (project_cli, shot_cli, asset_cli,    *)
(* task_cli, approval_cli, schedule_cli, report_cli, db_cli).              *)
(*                                                                         *)
(* The database file is the variable db: its schema (tables, the optional  *)
(* columns of assets, the rows of schema_migrations), the rows of the six  *)
(* entity tables and the AUTOINCREMENT counters.  Every CLI command is one *)
(* action that first runs init_db and then its repository calls; purge is  *)
(* a sequence of individually committed delete statements.  The variable   *)
(* loc is where database files are: the PIPELY_DB environment variable and *)
(* the files init_db has created, by path.                                 *)
(***************************************************************************)
EXTENDS Integers, Sequences, FiniteSets, TLC

VARIABLES db, purge, ret, initOk, loc

vars == <<db, purge, ret, initOk, loc>>

(***************************************************************************)
(* Bounds of the model                                                     *)
(***************************************************************************)
\* largest id each AUTOINCREMENT counter may hand out
MaxId == 2
\* largest number of rows ever created in one database file
MaxRows == 4

(***************************************************************************)
(* Values                                                                  *)
(***************************************************************************)
\* Python None / SQL NULL; ids handed out by AUTOINCREMENT start at 1
NULL == 0

\* project name and code
Names == {"Film"}
Codes == {"FILM"}
ShotCodes == {"S010"}
ShotNames == {"Opening"}
AssetNames == {"Hero"}
AssetTypes == {"character"}
\* asset status
Statuses == {"todo"}
TaskNames == {"Model"}
TaskStatuses == {"todo"}
Assignees == {}
ApprovalStatuses == {"approved"}
Notes == {}
ScheduleStatuses == {"scheduled"}
\* due dates, ISO-8601 days written as numbers (same order as the strings)
Dates == {20250105, 20250110}
\* values of datetime.utcnow().isoformat()
Times == {"T1"}

EntityTables == {"projects", "shots", "assets", "tasks", "approvals", "schedules"}
AllTables == EntityTables \cup {"schema_migrations"}
OptionalAssetCols == {"project_id", "shot_id"}

(***************************************************************************)
(* Migration registry                                                      *)
(***************************************************************************)
CreateStmt(t) == [kind |-> "create", table |-> t, col |-> "", v |-> 0]
AlterStmt(c) == [kind |-> "alter", table |-> "assets", col |-> c, v |-> 0]
VersionStmt(n) == [kind |-> "version", table |-> "schema_migrations", col |-> "", v |-> n]

MIGRATIONS ==
    << [version |-> 1, script |-> <<CreateStmt("schema_migrations"), VersionStmt(1)>>],
       [version |-> 2, script |-> <<CreateStmt("assets"), VersionStmt(2)>>],
       [version |-> 3, script |-> <<CreateStmt("approvals"), VersionStmt(3)>>],
       [version |-> 4, script |-> <<CreateStmt("schedules"), VersionStmt(4)>>],
       [version |-> 5, script |-> <<CreateStmt("projects"), VersionStmt(5)>>],
       [version |-> 6, script |-> <<CreateStmt("shots"), VersionStmt(6)>>],
       [version |-> 7, script |-> <<AlterStmt("project_id"), AlterStmt("shot_id"),
                                    VersionStmt(7)>>],
       [version |-> 8, script |-> <<CreateStmt("tasks"), VersionStmt(8)>>] >>

LatestVersion == MIGRATIONS[Len(MIGRATIONS)].version

\* an injected environment failure: statement stmt of migration version raises
\* sqlite3.OperationalError (disk I/O error, database is locked)
NoFault == [version |-> 0, stmt |-> 0]
Faults == {NoFault} \cup
          { [version |-> MIGRATIONS[i].version, stmt |-> s] :
              i \in 1..Len(MIGRATIONS), s \in 1..3 }
RealFaults == { f \in Faults :
                  f = NoFault \/ f.stmt <= Len(MIGRATIONS[f.version].script) }

OperationalErrors == {"duplicate column name", "no such table", "no such column",
                      "disk I/O error"}
IntegrityErrors == {"UNIQUE constraint failed"}

(***************************************************************************)
(* The database file                                                       *)
(***************************************************************************)
SetMax(S) == IF S = {} THEN 0 ELSE CHOOSE m \in S : \A x \in S : x <= m

EmptyDb ==
    [tables |-> {}, assetCols |-> {}, versions |-> {},
     projects |-> {}, shots |-> {}, assets |-> {},
     tasks |-> {}, approvals |-> {}, schedules |-> {},
     seq |-> [t \in EntityTables |-> 0]]

_has_schema_table(d) == "schema_migrations" \in d.tables

_current_version(d) ==
    IF ~_has_schema_table(d) THEN 0 ELSE SetMax(d.versions)

\* one SQL statement of a migration script: the database after it and the
\* error it raised ("" when it succeeded)
\* variant: ADD COLUMN rebuilds the table and does not copy its rows
ExecStatement_rebuild(d, st) ==
    CASE st.kind = "create" ->
           IF st.table \in d.tables
           THEN [db |-> d, err |-> ""]
           ELSE [db |-> [d EXCEPT !.tables = @ \cup {st.table}], err |-> ""]
      [] st.kind = "alter" ->
           IF st.table \notin d.tables
           THEN [db |-> d, err |-> "no such table"]
           ELSE IF st.col \in d.assetCols
           THEN [db |-> d, err |-> "duplicate column name"]
           ELSE [db |-> [d EXCEPT !.assetCols = @ \cup {st.col}, !.assets = {}],
                 err |-> ""]
      [] st.kind = "version" ->
           IF st.table \notin d.tables
           THEN [db |-> d, err |-> "no such table"]
           ELSE IF st.v \in d.versions
           THEN [db |-> d, err |-> "UNIQUE constraint failed"]
           ELSE [db |-> [d EXCEPT !.versions = @ \cup {st.v}], err |-> ""]

ExecStatement(d, st) ==
    CASE st.kind = "create" ->
           IF st.table \in d.tables
           THEN [db |-> d, err |-> ""]
           ELSE [db |-> [d EXCEPT !.tables = @ \cup {st.table}], err |-> ""]
      [] st.kind = "alter" ->
           IF st.table \notin d.tables
           THEN [db |-> d, err |-> "no such table"]
           ELSE IF st.col \in d.assetCols
           THEN [db |-> d, err |-> "duplicate column name"]
           ELSE [db |-> [d EXCEPT !.assetCols = @ \cup {st.col}], err |-> ""]
      [] st.kind = "version" ->
           IF st.table \notin d.tables
           THEN [db |-> d, err |-> "no such table"]
           ELSE IF st.v \in d.versions
           THEN [db |-> d, err |-> "UNIQUE constraint failed"]
           ELSE [db |-> [d EXCEPT !.versions = @ \cup {st.v}], err |-> ""]

\* conn.executescript(script): the statements run in order, each committed on
\* its own; the first error ends the script and is raised
RECURSIVE executescript(_, _, _, _)
executescript(d, script, i, faultStmt) ==
    IF i > Len(script) THEN [db |-> d, err |-> ""]
    ELSE IF i = faultStmt THEN [db |-> d, err |-> "disk I/O error"]
    ELSE LET r == ExecStatement(d, script[i])
         IN  IF r.err # "" THEN r
             ELSE executescript(r.db, script, i + 1, faultStmt)

\* "ALTER TABLE assets ADD COLUMN" in script
HasAlterAssets(script) ==
    \E i \in 1..Len(script) : script[i].kind = "alter" /\ script[i].table = "assets"

\* the registry entries the loop of _apply_migrations does not skip
Pending(current) == SelectSeq(MIGRATIONS, LAMBDA m : m.version > current)

\* the loop of _apply_migrations over the pending entries, from entry i on;
\* swallowed collects the errors the except branch passed over
RECURSIVE MigrationLoop(_, _, _, _, _, _)
MigrationLoop(d, pending, i, applied, swallowed, fault) ==
    IF i > Len(pending)
    THEN [db |-> d, applied |-> applied, err |-> "", swallowed |-> swallowed]
    ELSE LET m == pending[i]
             r == executescript(d, m.script, 1,
                                IF fault.version = m.version THEN fault.stmt ELSE 0)
         IN  IF r.err \in OperationalErrors /\ HasAlterAssets(m.script)
             THEN MigrationLoop(r.db, pending, i + 1, applied + 1,
                                swallowed \cup {r.err}, fault)
             ELSE IF r.err # ""
             THEN [db |-> r.db, applied |-> applied, err |-> r.err,
                   swallowed |-> swallowed]
             ELSE MigrationLoop(r.db, pending, i + 1, applied + 1, swallowed, fault)

\* variant: the loop skips entries with version < current
_apply_migrations_lt(d, fault) ==
    MigrationLoop(d, Pending(_current_version(d) - 1), 1, 0, {}, fault)

_apply_migrations(d, fault) ==
    MigrationLoop(d, Pending(_current_version(d)), 1, 0, {}, fault)

\* variant: a failed init removes the file it was working on
init_db_cleanup(d, fault) ==
    LET r == _apply_migrations(d, fault)
    IN  IF r.err # "" THEN [r EXCEPT !.db = EmptyDb] ELSE r

\* init_db: the file is created when absent, then migrated
init_db(d, fault) == _apply_migrations(d, fault)

(***************************************************************************)
(* Entity repositories (storage.py)                                        *)
(***************************************************************************)
Ids(rows) == { r.id : r \in rows }

\* ORDER BY id
RECURSIVE OrderById(_)
OrderById(rows) ==
    IF rows = {} THEN <<>>
    ELSE LET first == CHOOSE r \in rows : \A o \in rows : r.id <= o.id
         IN  <<first>> \o OrderById(rows \ {first})

\* ORDER BY due_date, id
RECURSIVE OrderByDueDateId(_)
OrderByDueDateId(rows) ==
    IF rows = {} THEN <<>>
    ELSE LET first == CHOOSE r \in rows : \A o \in rows :
                          \/ r.due_date < o.due_date
                          \/ r.due_date = o.due_date /\ r.id <= o.id
         IN  <<first>> \o OrderByDueDateId(rows \ {first})

\* variant: a rowid without AUTOINCREMENT, one more than the largest in use
NextId_rowid(d, t) == SetMax(Ids(d[t])) + 1

\* the id AUTOINCREMENT hands out next for table t
NextId(d, t) == d.seq[t] + 1

\* INSERT of row into table t, which takes the next AUTOINCREMENT id
Insert(d, t, row) ==
    IF t \notin d.tables
    THEN [db |-> d, id |-> NULL, err |-> "no such table"]
    ELSE LET new == [row EXCEPT !.id = NextId(d, t)]
         IN  [db |-> [d EXCEPT ![t] = @ \cup {new}, !.seq[t] = new.id],
              id |-> new.id, err |-> ""]

create_project(d, name, code, now) ==
    Insert(d, "projects",
           [id |-> NULL, name |-> name, code |-> code, created_at |-> now])

\* variant: the foreign key is enforced
create_shot_fk(d, project_id, code, name, now) ==
    IF project_id \notin Ids(d.projects)
    THEN [db |-> d, id |-> NULL, err |-> "FOREIGN KEY constraint failed"]
    ELSE Insert(d, "shots",
                [id |-> NULL, project_id |-> project_id, code |-> code,
                 name |-> name, created_at |-> now])

create_shot(d, project_id, code, name, now) ==
    Insert(d, "shots",
           [id |-> NULL, project_id |-> project_id, code |-> code, name |-> name,
            created_at |-> now])

\* the INSERT names the columns project_id and shot_id
create_asset(d, name, asset_type, status, project_id, shot_id, now) ==
    IF "assets" \in d.tables /\ ~(OptionalAssetCols \subseteq d.assetCols)
    THEN [db |-> d, id |-> NULL, err |-> "no such column"]
    ELSE Insert(d, "assets",
                [id |-> NULL, name |-> name, asset_type |-> asset_type,
                 status |-> status, created_at |-> now,
                 project_id |-> project_id, shot_id |-> shot_id])

create_task(d, asset_id, name, status, assignee, due_date, now) ==
    Insert(d, "tasks",
           [id |-> NULL, asset_id |-> asset_id, name |-> name, status |-> status,
            assignee |-> assignee, due_date |-> due_date, created_at |-> now])

create_approval(d, asset_id, status, note, now) ==
    Insert(d, "approvals",
           [id |-> NULL, asset_id |-> asset_id, status |-> status, note |-> note,
            created_at |-> now])

create_schedule(d, asset_id, task, due_date, status, now) ==
    Insert(d, "schedules",
           [id |-> NULL, asset_id |-> asset_id, task |-> task, due_date |-> due_date,
            status |-> status, created_at |-> now])

\* variant: LIMIT 1
list_projects_first(d) ==
    IF d.projects = {} THEN <<>> ELSE <<Head(OrderById(d.projects))>>

list_projects(d) == OrderById(d.projects)

\* variant: the filter compares the shot's id, not its project_id
list_shots_by_id(d, project_id) ==
    OrderById({ s \in d.shots : project_id = NULL \/ s.id = project_id })

\* variant: the WHERE clause is dropped
list_shots_unfiltered(d, project_id) == OrderById(d.shots)

list_shots(d, project_id) ==
    OrderById({ s \in d.shots : project_id = NULL \/ s.project_id = project_id })

\* variant: the shot filter compares the project_id column
list_assets_shot_as_project(d, project_id, shot_id) ==
    OrderById({ a \in d.assets :
                /\ project_id # NULL => a.project_id = project_id
                /\ shot_id # NULL => a.project_id = shot_id })

list_assets(d, project_id, shot_id) ==
    OrderById({ a \in d.assets :
                /\ project_id # NULL => a.project_id = project_id
                /\ shot_id # NULL => a.shot_id = shot_id })

\* variant: WHERE asset_id = ? also when no asset is given
list_tasks_always_filtered(d, asset_id) ==
    OrderById({ t \in d.tasks : t.asset_id = asset_id })

list_tasks(d, asset_id) ==
    OrderById({ t \in d.tasks : asset_id = NULL \/ t.asset_id = asset_id })

list_approvals(d, asset_id) ==
    OrderById({ a \in d.approvals : asset_id = NULL \/ a.asset_id = asset_id })

\* variant: ORDER BY id, as the other kinds
list_schedules_by_id(d, asset_id) ==
    OrderById({ s \in d.schedules : asset_id = NULL \/ s.asset_id = asset_id })

list_schedules(d, asset_id) ==
    OrderByDueDateId({ s \in d.schedules : asset_id = NULL \/ s.asset_id = asset_id })

\* variant: the WHERE clause is missing
_id_exists_no_where(d, table, entity_id) == d[table] # {}

_id_exists(d, table, entity_id) == \E r \in d[table] : r.id = entity_id

project_exists(d, project_id) == _id_exists(d, "projects", project_id)
shot_exists(d, shot_id) == _id_exists(d, "shots", shot_id)
asset_exists(d, asset_id) == _id_exists(d, "assets", asset_id)

report_summary(d) ==
    [counts |-> [t \in EntityTables |-> Cardinality(d[t])],
     asset_status |-> [s \in { a.status : a \in d.assets } |->
                         Cardinality({ a \in d.assets : a.status = s })],
     task_status |-> [s \in { t.status : t \in d.tasks } |->
                        Cardinality({ t \in d.tasks : t.status = s })]]

\* storage functions the CLI imports whose definitions are absent from
\* storage.py: update_*, delete_*, approval_exists, schedule_exists
approval_exists(d, approval_id) == _id_exists(d, "approvals", approval_id)
schedule_exists(d, schedule_id) == _id_exists(d, "schedules", schedule_id)

\* DELETE FROM table WHERE id = entity_id
DeleteRow(d, table, entity_id) ==
    [d EXCEPT ![table] = { r \in @ : r.id # entity_id }]

delete_project(d, project_id) == DeleteRow(d, "projects", project_id)
delete_shot(d, shot_id) == DeleteRow(d, "shots", shot_id)
delete_asset(d, asset_id) == DeleteRow(d, "assets", asset_id)
delete_approval(d, approval_id) == DeleteRow(d, "approvals", approval_id)
delete_schedule(d, schedule_id) == DeleteRow(d, "schedules", schedule_id)

\* a text option that was not supplied (None)
NONE == "None"

Txt(new, old) == IF new = NONE THEN old ELSE new
Ref(new, old) == IF new = NULL THEN old ELSE new

update_project(d, project_id, name, code) ==
    IF name = NONE /\ code = NONE THEN [db |-> d, updated |-> FALSE]
    ELSE [db |-> [d EXCEPT !.projects =
                    { IF r.id = project_id
                      THEN [r EXCEPT !.name = Txt(name, @), !.code = Txt(code, @)]
                      ELSE r : r \in @ }],
          updated |-> TRUE]

\* variant: the update also writes created_at
update_shot_touch(d, shot_id, project_id, code, name) ==
    IF project_id = NULL /\ code = NONE /\ name = NONE
    THEN [db |-> d, updated |-> FALSE]
    ELSE [db |-> [d EXCEPT !.shots =
                    { IF r.id = shot_id
                      THEN [r EXCEPT !.project_id = Ref(project_id, @),
                                     !.code = Txt(code, @), !.name = Txt(name, @),
                                     !.created_at = "T2"]
                      ELSE r : r \in @ }],
          updated |-> TRUE]

update_shot(d, shot_id, project_id, code, name) ==
    IF project_id = NULL /\ code = NONE /\ name = NONE
    THEN [db |-> d, updated |-> FALSE]
    ELSE [db |-> [d EXCEPT !.shots =
                    { IF r.id = shot_id
                      THEN [r EXCEPT !.project_id = Ref(project_id, @),
                                     !.code = Txt(code, @), !.name = Txt(name, @)]
                      ELSE r : r \in @ }],
          updated |-> TRUE]

update_asset(d, asset_id, name, asset_type, status, project_id, shot_id) ==
    IF name = NONE /\ asset_type = NONE /\ status = NONE
       /\ project_id = NULL /\ shot_id = NULL
    THEN [db |-> d, updated |-> FALSE]
    ELSE [db |-> [d EXCEPT !.assets =
                    { IF r.id = asset_id
                      THEN [r EXCEPT !.name = Txt(name, @),
                                     !.asset_type = Txt(asset_type, @),
                                     !.status = Txt(status, @),
                                     !.project_id = Ref(project_id, @),
                                     !.shot_id = Ref(shot_id, @)]
                      ELSE r : r \in @ }],
          updated |-> TRUE]

update_approval(d, approval_id, asset_id, status, note) ==
    IF asset_id = NULL /\ status = NONE /\ note = NONE
    THEN [db |-> d, updated |-> FALSE]
    ELSE [db |-> [d EXCEPT !.approvals =
                    { IF r.id = approval_id
                      THEN [r EXCEPT !.asset_id = Ref(asset_id, @),
                                     !.status = Txt(status, @), !.note = Txt(note, @)]
                      ELSE r : r \in @ }],
          updated |-> TRUE]

update_schedule(d, schedule_id, asset_id, task, due_date, status) ==
    IF asset_id = NULL /\ task = NONE /\ due_date = NULL /\ status = NONE
    THEN [db |-> d, updated |-> FALSE]
    ELSE [db |-> [d EXCEPT !.schedules =
                    { IF r.id = schedule_id
                      THEN [r EXCEPT !.asset_id = Ref(asset_id, @),
                                     !.task = Txt(task, @),
                                     !.due_date = Ref(due_date, @),
                                     !.status = Txt(status, @)]
                      ELSE r : r \in @ }],
          updated |-> TRUE]

(***************************************************************************)
(* CLI commands: each resolves the path, runs init_db and then gates on    *)
(* the exists checks before it writes.  The parameter i is the result of   *)
(* the init_db call the command starts with.  A command's outcome is the   *)
(* database it leaves and its status: "ok", the BadParameter message, or   *)
(* "error" when an exception left the command.                             *)
(***************************************************************************)
Outcome(d, status) == [db |-> d, status |-> status, inited |-> TRUE]

\* init_db raised: the command ends with the file as the failed init left it
InitRaised(i) == [db |-> i.db, status |-> "error", inited |-> FALSE]

\* a repository call raised after init_db
Raised(d) == Outcome(d, "error")

project_cmd_add(i, name, code, now) ==
    IF i.err # "" THEN InitRaised(i)
        ELSE LET c == create_project(i.db, name, code, now)
             IN  IF c.err # "" THEN Raised(i.db) ELSE Outcome(c.db, "ok")

\* variant: the result of update_project is not looked at
project_cmd_update_unchecked(i, project_id, name, code) ==
    IF i.err # "" THEN InitRaised(i)
        ELSE IF ~project_exists(i.db, project_id)
        THEN Outcome(i.db, "ID not found")
        ELSE Outcome(update_project(i.db, project_id, name, code).db, "ok")

project_cmd_update(i, project_id, name, code) ==
    IF i.err # "" THEN InitRaised(i)
        ELSE IF ~project_exists(i.db, project_id)
        THEN Outcome(i.db, "ID not found")
        ELSE LET u == update_project(i.db, project_id, name, code)
             IN  IF ~u.updated THEN Outcome(u.db, "No updates provided")
                 ELSE Outcome(u.db, "ok")

\* variant: the shots of the project are deleted with it
project_cmd_delete_with_shots(i, project_id) ==
    IF i.err # "" THEN InitRaised(i)
        ELSE IF ~project_exists(i.db, project_id)
        THEN Outcome(i.db, "ID not found")
        ELSE Outcome([delete_project(i.db, project_id) EXCEPT
                        !.shots = { r \in @ : r.project_id # project_id }], "ok")

project_cmd_delete(i, project_id) ==
    IF i.err # "" THEN InitRaised(i)
        ELSE IF ~project_exists(i.db, project_id)
        THEN Outcome(i.db, "ID not found")
        ELSE Outcome(delete_project(i.db, project_id), "ok")

\* variant: no project_exists gate
shot_cmd_add_ungated(i, project_id, code, name, now) ==
    IF i.err # "" THEN InitRaised(i)
        ELSE LET c == create_shot(i.db, project_id, code, name, now)
             IN  IF c.err # "" THEN Raised(i.db) ELSE Outcome(c.db, "ok")

shot_cmd_add(i, project_id, code, name, now) ==
    IF i.err # "" THEN InitRaised(i)
        ELSE IF ~project_exists(i.db, project_id)
        THEN Outcome(i.db, "ID not found")
        ELSE LET c == create_shot(i.db, project_id, code, name, now)
             IN  IF c.err # "" THEN Raised(i.db) ELSE Outcome(c.db, "ok")

shot_cmd_update(i, shot_id, project_id, code, name) ==
    IF i.err # "" THEN InitRaised(i)
        ELSE IF ~shot_exists(i.db, shot_id)
        THEN Outcome(i.db, "ID not found")
        ELSE IF project_id # NULL /\ ~project_exists(i.db, project_id)
        THEN Outcome(i.db, "ID not found")
        ELSE LET u == update_shot(i.db, shot_id, project_id, code, name)
             IN  IF ~u.updated THEN Outcome(u.db, "No updates provided")
                 ELSE Outcome(u.db, "ok")

shot_cmd_delete(i, shot_id) ==
    IF i.err # "" THEN InitRaised(i)
        ELSE IF ~shot_exists(i.db, shot_id)
        THEN Outcome(i.db, "ID not found")
        ELSE Outcome(delete_shot(i.db, shot_id), "ok")

\* variant: the shot id is not checked
asset_cmd_add_no_shot_gate(i, name, asset_type, status, project_id, shot_id, now) ==
    IF i.err # "" THEN InitRaised(i)
        ELSE IF project_id # NULL /\ ~project_exists(i.db, project_id)
        THEN Outcome(i.db, "ID not found")
        ELSE LET c == create_asset(i.db, name, asset_type, status,
                                   project_id, shot_id, now)
             IN  IF c.err # "" THEN Raised(i.db) ELSE Outcome(c.db, "ok")

\* variant: the project is not looked up
asset_cmd_add_no_project_gate(i, name, asset_type, status, project_id, shot_id, now) ==
    IF i.err # "" THEN InitRaised(i)
        ELSE IF shot_id # NULL /\ ~shot_exists(i.db, shot_id)
        THEN Outcome(i.db, "ID not found")
        ELSE LET c == create_asset(i.db, name, asset_type, status,
                                   project_id, shot_id, now)
             IN  IF c.err # "" THEN Raised(i.db) ELSE Outcome(c.db, "ok")

asset_cmd_add(i, name, asset_type, status, project_id, shot_id, now) ==
    IF i.err # "" THEN InitRaised(i)
        ELSE IF project_id # NULL /\ ~project_exists(i.db, project_id)
        THEN Outcome(i.db, "ID not found")
        ELSE IF shot_id # NULL /\ ~shot_exists(i.db, shot_id)
        THEN Outcome(i.db, "ID not found")
        ELSE LET c == create_asset(i.db, name, asset_type, status,
                                   project_id, shot_id, now)
             IN  IF c.err # "" THEN Raised(i.db) ELSE Outcome(c.db, "ok")

\* `asset update` and `asset delete`: the commands tests/test_asset_cli.py
\* runs; asset_cli.py holds neither
asset_cmd_update(i, asset_id, name, asset_type, status, project_id, shot_id) ==
    IF i.err # "" THEN InitRaised(i)
        ELSE IF ~asset_exists(i.db, asset_id)
        THEN Outcome(i.db, "ID not found")
        ELSE IF project_id # NULL /\ ~project_exists(i.db, project_id)
        THEN Outcome(i.db, "ID not found")
        ELSE IF shot_id # NULL /\ ~shot_exists(i.db, shot_id)
        THEN Outcome(i.db, "ID not found")
        ELSE LET u == update_asset(i.db, asset_id, name, asset_type, status,
                                   project_id, shot_id)
             IN  IF ~u.updated THEN Outcome(u.db, "No updates provided")
                 ELSE Outcome(u.db, "ok")

asset_cmd_delete(i, asset_id) ==
    IF i.err # "" THEN InitRaised(i)
        ELSE IF ~asset_exists(i.db, asset_id)
        THEN Outcome(i.db, "ID not found")
        ELSE Outcome(delete_asset(i.db, asset_id), "ok")

task_cmd_add(i, asset_id, name, status, assignee, due, now) ==
    IF i.err # "" THEN InitRaised(i)
        ELSE IF ~asset_exists(i.db, asset_id)
        THEN Outcome(i.db, "ID not found")
        ELSE LET c == create_task(i.db, asset_id, name, status, assignee, due, now)
             IN  IF c.err # "" THEN Raised(i.db) ELSE Outcome(c.db, "ok")

approval_cmd_set(i, asset_id, status, note, now) ==
    IF i.err # "" THEN InitRaised(i)
        ELSE IF ~asset_exists(i.db, asset_id)
        THEN Outcome(i.db, "ID not found")
        ELSE LET c == create_approval(i.db, asset_id, status, note, now)
             IN  IF c.err # "" THEN Raised(i.db) ELSE Outcome(c.db, "ok")

approval_cmd_update(i, approval_id, asset_id, status, note) ==
    IF i.err # "" THEN InitRaised(i)
        ELSE IF ~approval_exists(i.db, approval_id)
        THEN Outcome(i.db, "ID not found")
        ELSE IF asset_id # NULL /\ ~asset_exists(i.db, asset_id)
        THEN Outcome(i.db, "ID not found")
        ELSE LET u == update_approval(i.db, approval_id, asset_id, status, note)
             IN  IF ~u.updated THEN Outcome(u.db, "No updates provided")
                 ELSE Outcome(u.db, "ok")

approval_cmd_delete(i, approval_id) ==
    IF i.err # "" THEN InitRaised(i)
        ELSE IF ~approval_exists(i.db, approval_id)
        THEN Outcome(i.db, "ID not found")
        ELSE Outcome(delete_approval(i.db, approval_id), "ok")

schedule_cmd_add(i, asset_id, task, due, status, now) ==
    IF i.err # "" THEN InitRaised(i)
        ELSE IF ~asset_exists(i.db, asset_id)
        THEN Outcome(i.db, "ID not found")
        ELSE LET c == create_schedule(i.db, asset_id, task, due, status, now)
             IN  IF c.err # "" THEN Raised(i.db) ELSE Outcome(c.db, "ok")

schedule_cmd_update(i, schedule_id, asset_id, task, due, status) ==
    IF i.err # "" THEN InitRaised(i)
        ELSE IF ~schedule_exists(i.db, schedule_id)
        THEN Outcome(i.db, "ID not found")
        ELSE IF asset_id # NULL /\ ~asset_exists(i.db, asset_id)
        THEN Outcome(i.db, "ID not found")
        ELSE LET u == update_schedule(i.db, schedule_id, asset_id, task, due, status)
             IN  IF ~u.updated THEN Outcome(u.db, "No updates provided")
                 ELSE Outcome(u.db, "ok")

schedule_cmd_delete(i, schedule_id) ==
    IF i.err # "" THEN InitRaised(i)
        ELSE IF ~schedule_exists(i.db, schedule_id)
        THEN Outcome(i.db, "ID not found")
        ELSE Outcome(delete_schedule(i.db, schedule_id), "ok")

\* the list commands and `report summary`: init_db, then a read.  The SELECT of
\* list_assets names the columns project_id and shot_id
cmd_list(i, table) ==
    IF i.err # "" THEN InitRaised(i)
        ELSE IF table = "assets" /\ ~(OptionalAssetCols \subseteq i.db.assetCols)
        THEN Raised(i.db)
        ELSE Outcome(i.db, "ok")

cmd_summary(i) ==
    IF i.err # "" THEN InitRaised(i) ELSE Outcome(i.db, "ok")

(***************************************************************************)
(* Purge (`project purge`): the command tests/test_project_cli.py runs;    *)
(* project_cli.py and storage.py hold no definition of it.  For each       *)
(* targeted project, in dependency order, one committed delete statement   *)
(* per table: the schedules, approvals and tasks of every asset under the  *)
(* project (directly or via its shots), the assets, the shots, the project *)
(***************************************************************************)
Range(f) == { f[i] : i \in DOMAIN f }

PurgeOrder == <<"schedules", "approvals", "tasks", "assets", "shots", "projects">>

\* ids of the assets under project_id: directly, or via one of its shots
PurgeAssetIds(d, project_id) ==
    Ids(Range(list_assets(d, project_id, NULL))) \cup
    UNION { Ids(Range(list_assets(d, NULL, s.id))) :
              s \in Range(list_shots(d, project_id)) }

\* the delete statement of purge step k for project_id
PurgeStatement(d, k, project_id) ==
    LET under == PurgeAssetIds(d, project_id)
        t == PurgeOrder[k]
    IN  CASE t \in {"schedules", "approvals", "tasks"} ->
               [d EXCEPT ![t] = { r \in @ : r.asset_id \notin under }]
          [] t = "assets" ->
               [d EXCEPT !.assets = { r \in @ : r.id \notin under }]
          [] t = "shots" ->
               [d EXCEPT !.shots = { r \in @ : r.project_id # project_id }]
          [] t = "projects" ->
               delete_project(d, project_id)

\* the projects a purge targets: the one named, or all of them (NULL)
PurgeTargets(d, project_id) ==
    IF project_id = NULL THEN list_projects(d)
    ELSE SelectSeq(list_projects(d), LAMBDA p : p.id = project_id)

(***************************************************************************)
(* Location of the database file (storage.py, db_cli.py).  A path is the   *)
(* sequence of its components; an optional value (a Path or None, an       *)
(* environment variable set or not) is <<>> or <<value>>.                  *)
(***************************************************************************)
\* Path.home()
HOME == <<"home", "user">>
DEFAULT_DB_DIR == HOME \o <<".pipely">>
DEFAULT_DB_NAME == "pipely.db"

\* Path.expanduser(): a leading "~" is replaced by the home directory
expanduser(p) == IF p # <<>> /\ Head(p) = "~" THEN HOME \o Tail(p) ELSE p

\* env is os.environ.get(DEFAULT_DB_ENV): not set, or set to a string that
\* may be empty (the path <<>>)
default_db_path(env) ==
    IF env # <<>> /\ env[1] # <<>> THEN expanduser(env[1])
    ELSE DEFAULT_DB_DIR \o <<DEFAULT_DB_NAME>>

\* variant: the environment variable wins over the argument
resolve_db_path_env_first(env, db_path) ==
    IF env # <<>> /\ env[1] # <<>> THEN expanduser(env[1])
    ELSE IF db_path # <<>> THEN expanduser(db_path[1])
    ELSE DEFAULT_DB_DIR \o <<DEFAULT_DB_NAME>>

resolve_db_path(env, db_path) ==
    IF db_path # <<>> THEN expanduser(db_path[1]) ELSE default_db_path(env)

\* the database file at path p: a file sqlite3.connect creates is empty
FileAt(files, p) ==
    IF \E f \in files : f.path = p
    THEN (CHOOSE f \in files : f.path = p).db
    ELSE EmptyDb

\* variant: init looks at the environment variable before its argument
init_db_at_env_first(env, files, db_path) ==
    LET path == IF env # <<>> /\ env[1] # <<>> THEN default_db_path(env)
                ELSE resolve_db_path(env, db_path)
        r == init_db(FileAt(files, path), NoFault)
    IN  [path |-> path, applied |-> r.applied, err |-> r.err,
         files |-> { f \in files : f.path # path } \cup {[path |-> path, db |-> r.db]}]

\* init_db(db_path): the path is resolved, its parent directory made, the
\* file opened (created when absent) and migrated
init_db_at(env, files, db_path) ==
    LET path == resolve_db_path(env, db_path)
        r == init_db(FileAt(files, path), NoFault)
    IN  [path |-> path, applied |-> r.applied, err |-> r.err,
         files |-> { f \in files : f.path # path } \cup {[path |-> path, db |-> r.db]}]

\* no variable set, no file created
NoLoc == [env |-> <<>>, files |-> {}]

\* --db values: not given, a path under "~", a path elsewhere
PathInputs == { <<>>, << <<"~", "work.db">> >>, << <<"srv", "work.db">> >> }

\* PIPELY_DB values: not set, empty, a path under "~", a path elsewhere
EnvInputs == { <<>>, << <<>> >>, << <<"~", "env.db">> >>, << <<"srv", "env.db">> >> }

\* the environment the next command runs in
SetEnv(v) ==
    /\ loc.env # v
    /\ loc' = [loc EXCEPT !.env = v]
    /\ ret' = [op |-> "env", status |-> "ok"]
    /\ UNCHANGED <<db, purge, initOk>>

\* `db path`: prints resolve_db_path of its option
DbPath(arg) ==
    /\ ret' = [op |-> "path", status |-> "ok", arg |-> arg, env |-> loc.env,
               path |-> resolve_db_path(loc.env, arg)]
    /\ UNCHANGED <<db, purge, initOk, loc>>

\* `db init` with the location spelled out: init_db on the path it resolves
DbInitAt(arg) ==
    LET r == init_db_at(loc.env, loc.files, arg)
    IN  /\ loc' = [loc EXCEPT !.files = r.files]
        /\ ret' = [op |-> "init_at", status |-> IF r.err = "" THEN "ok" ELSE "error",
                   arg |-> arg, env |-> loc.env, path |-> r.path,
                   applied |-> r.applied, before |-> loc.files]
        /\ UNCHANGED <<db, purge, initOk>>

(***************************************************************************)
(* State machine                                                           *)
(***************************************************************************)
Idle == [pc |-> "idle"]

NoRet == [op |-> "none", status |-> "none"]

\* a file that does not exist yet
Init ==
    /\ db = EmptyDb
    /\ purge = Idle
    /\ ret = NoRet
    /\ initOk = FALSE
    /\ loc = NoLoc

IdInputs == 1..MaxId

Created(d) ==
    d.seq["projects"] + d.seq["shots"] + d.seq["assets"] + d.seq["tasks"]
    + d.seq["approvals"] + d.seq["schedules"]

CanCreate(t) == db.seq[t] < MaxId /\ Created(db) < MaxRows

\* `db init`; an injected failure is one of a statement that runs
DbInit(fault) ==
    /\ purge.pc = "idle"
    /\ fault = NoFault \/ fault.version > _current_version(db)
    /\ LET r == init_db(db, fault)
       IN  /\ db' = r.db
           /\ ret' = [op |-> "init",
                      status |-> IF r.err = "" THEN "ok" ELSE "error",
                      applied |-> r.applied, err |-> r.err,
                      swallowed |-> r.swallowed,
                      from |-> db]
           /\ initOk' = (initOk \/ r.err = "")
    /\ UNCHANGED <<purge, loc>>

\* a command that ran to its end with outcome o
Command(o) ==
    /\ purge.pc = "idle"
    /\ db' = o.db
    /\ ret' = [op |-> "cmd", status |-> o.status]
    /\ initOk' = (initOk \/ o.inited)
    /\ UNCHANGED <<purge, loc>>

ProjectAdd ==
    LET i == init_db(db, NoFault)
    IN  \E name \in Names, code \in Codes, now \in Times :
            CanCreate("projects") /\ Command(project_cmd_add(i, name, code, now))

ProjectUpdate ==
    LET i == init_db(db, NoFault)
    IN  \E id \in IdInputs, name \in Names \cup {NONE}, code \in Codes \cup {NONE} :
            Command(project_cmd_update(i, id, name, code))

ProjectDelete ==
    LET i == init_db(db, NoFault)
    IN  \E id \in IdInputs : Command(project_cmd_delete(i, id))

ShotAdd ==
    LET i == init_db(db, NoFault)
    IN  \E pid \in IdInputs, code \in ShotCodes, name \in ShotNames, now \in Times :
            CanCreate("shots") /\ Command(shot_cmd_add(i, pid, code, name, now))

\* --name stands for the text options: --code is drawn as not supplied
ShotUpdate ==
    LET i == init_db(db, NoFault)
    IN  \E id \in IdInputs, pid \in IdInputs \cup {NULL},
           name \in ShotNames \cup {NONE} :
            Command(shot_cmd_update(i, id, pid, NONE, name))

ShotDelete ==
    LET i == init_db(db, NoFault)
    IN  \E id \in IdInputs : Command(shot_cmd_delete(i, id))

AssetAdd ==
    LET i == init_db(db, NoFault)
    IN  \E name \in AssetNames, type \in AssetTypes, status \in Statuses,
           pid \in IdInputs \cup {NULL}, sid \in IdInputs \cup {NULL}, now \in Times :
            CanCreate("assets")
            /\ Command(asset_cmd_add(i, name, type, status, pid, sid, now))

\* --status stands for the text options: --name and --type are drawn as not
\* supplied
AssetUpdate ==
    LET i == init_db(db, NoFault)
    IN  \E id \in IdInputs, status \in Statuses \cup {NONE},
           pid \in IdInputs \cup {NULL}, sid \in IdInputs \cup {NULL} :
            Command(asset_cmd_update(i, id, NONE, NONE, status, pid, sid))

AssetDelete ==
    LET i == init_db(db, NoFault)
    IN  \E id \in IdInputs : Command(asset_cmd_delete(i, id))

TaskAdd ==
    LET i == init_db(db, NoFault)
    IN  \E aid \in IdInputs, name \in TaskNames, status \in TaskStatuses,
           assignee \in Assignees \cup {NONE}, due \in Dates \cup {NULL}, now \in Times :
            CanCreate("tasks")
            /\ Command(task_cmd_add(i, aid, name, status, assignee, due, now))

ApprovalSet ==
    LET i == init_db(db, NoFault)
    IN  \E aid \in IdInputs, status \in ApprovalStatuses, note \in Notes \cup {NONE},
           now \in Times :
            CanCreate("approvals") /\ Command(approval_cmd_set(i, aid, status, note, now))

ApprovalUpdate ==
    LET i == init_db(db, NoFault)
    IN  \E id \in IdInputs, aid \in IdInputs \cup {NULL},
           status \in ApprovalStatuses \cup {NONE}, note \in Notes \cup {NONE} :
            Command(approval_cmd_update(i, id, aid, status, note))

ApprovalDelete ==
    LET i == init_db(db, NoFault)
    IN  \E id \in IdInputs : Command(approval_cmd_delete(i, id))

ScheduleAdd ==
    LET i == init_db(db, NoFault)
    IN  \E aid \in IdInputs, task \in TaskNames, due \in Dates,
           status \in ScheduleStatuses, now \in Times :
            CanCreate("schedules")
            /\ Command(schedule_cmd_add(i, aid, task, due, status, now))

\* --due stands for the value options: --task and --status are drawn as not
\* supplied
ScheduleUpdate ==
    LET i == init_db(db, NoFault)
    IN  \E id \in IdInputs, aid \in IdInputs \cup {NULL}, due \in Dates \cup {NULL} :
            Command(schedule_cmd_update(i, id, aid, NONE, due, NONE))

ScheduleDelete ==
    LET i == init_db(db, NoFault)
    IN  \E id \in IdInputs : Command(schedule_cmd_delete(i, id))

List ==
    LET i == init_db(db, NoFault)
    IN  \E t \in EntityTables : Command(cmd_list(i, t))

ReportSummary ==
    LET i == init_db(db, NoFault)
    IN  Command(cmd_summary(i))

\* variant: the answer to the confirmation prompt is not looked at
PurgeBegin_unasked(project_id, confirmed) ==
    /\ purge.pc = "idle"
    /\ UNCHANGED loc
    /\ LET i == init_db(db, NoFault)
           targets == PurgeTargets(i.db, project_id)
       IN  IF i.err # ""
           THEN /\ db' = i.db
                /\ ret' = [op |-> "cmd", status |-> "error"]
                /\ UNCHANGED <<purge, initOk>>
           ELSE /\ db' = i.db
                /\ initOk' = TRUE
                /\ IF project_id # NULL /\ ~project_exists(i.db, project_id)
                   THEN ret' = [op |-> "cmd", status |-> "ID not found"]
                        /\ UNCHANGED purge
                   ELSE IF targets = <<>>
                   THEN ret' = [op |-> "purge", status |-> "ok", count |-> 0,
                                pre |-> i.db, targets |-> {},
                                all |-> (project_id = NULL)]
                        /\ UNCHANGED purge
                   ELSE /\ purge' = [pc |-> "run", step |-> 1, queue |-> targets,
                                     count |-> 0, pre |-> i.db,
                                     targets |-> Ids(Range(targets)),
                                     all |-> (project_id = NULL)]
                        /\ ret' = [op |-> "purge", status |-> "running"]

\* `project purge`: init_db, the gate on the named project, the confirmation
\* prompt; a confirmed purge then runs its delete statements one at a time
PurgeBegin(project_id, confirmed) ==
    /\ purge.pc = "idle"
    /\ UNCHANGED loc
    /\ LET i == init_db(db, NoFault)
           targets == PurgeTargets(i.db, project_id)
       IN  IF i.err # ""
           THEN /\ db' = i.db
                /\ ret' = [op |-> "cmd", status |-> "error"]
                /\ UNCHANGED <<purge, initOk>>
           ELSE /\ db' = i.db
                /\ initOk' = TRUE
                /\ IF project_id # NULL /\ ~project_exists(i.db, project_id)
                   THEN ret' = [op |-> "cmd", status |-> "ID not found"]
                        /\ UNCHANGED purge
                   ELSE IF ~confirmed
                   THEN ret' = [op |-> "cmd", status |-> "Purge cancelled"]
                        /\ UNCHANGED purge
                   ELSE IF targets = <<>>
                   THEN ret' = [op |-> "purge", status |-> "ok", count |-> 0,
                                pre |-> i.db, targets |-> {},
                                all |-> (project_id = NULL)]
                        /\ UNCHANGED purge
                   ELSE /\ purge' = [pc |-> "run", step |-> 1, queue |-> targets,
                                     count |-> 0, pre |-> i.db,
                                     targets |-> Ids(Range(targets)),
                                     all |-> (project_id = NULL)]
                        /\ ret' = [op |-> "purge", status |-> "running"]

\* the next delete statement of the running purge, committed on its own; the
\* last one of the last project ends the command with "Deleted N project(s)"
PurgeStep ==
    /\ purge.pc = "run"
    /\ db' = PurgeStatement(db, purge.step, Head(purge.queue).id)
    /\ IF purge.step < Len(PurgeOrder)
       THEN /\ purge' = [purge EXCEPT !.step = @ + 1]
            /\ UNCHANGED ret
       ELSE IF Len(purge.queue) > 1
       THEN /\ purge' = [purge EXCEPT !.step = 1, !.queue = Tail(@),
                                      !.count = @ + 1]
            /\ UNCHANGED ret
       ELSE /\ purge' = Idle
            /\ ret' = [op |-> "purge", status |-> "ok", count |-> purge.count + 1,
                       pre |-> purge.pre, targets |-> purge.targets,
                       all |-> purge.all]
    /\ UNCHANGED <<initOk, loc>>

\* a statement of the running purge raises: the command ends there, with the
\* statements before it committed
PurgeFail ==
    /\ purge.pc = "run"
    /\ purge' = Idle
    /\ ret' = [op |-> "purge", status |-> "error", count |-> purge.count,
               pre |-> purge.pre, targets |-> purge.targets, all |-> purge.all]
    /\ UNCHANGED <<db, initOk, loc>>

Commands ==
    \/ ProjectAdd \/ ProjectUpdate \/ ProjectDelete
    \/ ShotAdd \/ ShotUpdate \/ ShotDelete
    \/ AssetAdd \/ AssetUpdate \/ AssetDelete
    \/ TaskAdd
    \/ ApprovalSet \/ ApprovalUpdate \/ ApprovalDelete
    \/ ScheduleAdd \/ ScheduleUpdate \/ ScheduleDelete
    \/ List \/ ReportSummary
    \/ \E p \in IdInputs \cup {NULL}, c \in BOOLEAN : PurgeBegin(p, c)
    \/ PurgeStep
    \/ PurgeFail

\* the commands on a file that starts absent, with no failure of the
\* environment
Next ==
    \/ DbInit(NoFault)
    \/ Commands

Spec == Init /\ [][Next]_vars

(***************************************************************************)
(* Files left by earlier versions of the tool: a file at schema version c  *)
(* holds the tables of the migrations up to c and their version rows; an   *)
(* older file may already have one or both of the columns migration 7      *)
(* adds ("idempotent column additions on older SQLite files").             *)
(***************************************************************************)
TablesAt(c) ==
    { MIGRATIONS[i].script[1].table :
        i \in { j \in 1..Len(MIGRATIONS) :
                  /\ MIGRATIONS[j].version <= c
                  /\ MIGRATIONS[j].script[1].kind = "create" } }

\* one row in every entity table the file has, each naming row 1 of its parent
LegacyRows(t, tables, cols) ==
    IF t \notin tables THEN {}
    ELSE CASE t = "projects" ->
                {[id |-> 1, name |-> "Film", code |-> "FILM", created_at |-> "T1"]}
           [] t = "shots" ->
                {[id |-> 1, project_id |-> 1, code |-> "S010", name |-> "Opening",
                  created_at |-> "T1"]}
           [] t = "assets" ->
                {[id |-> 1, name |-> "Hero", asset_type |-> "character",
                  status |-> "todo", created_at |-> "T1",
                  project_id |-> IF "project_id" \in cols /\ "projects" \in tables
                                 THEN 1 ELSE NULL,
                  shot_id |-> IF "shot_id" \in cols /\ "shots" \in tables
                              THEN 1 ELSE NULL]}
           [] t = "tasks" ->
                {[id |-> 1, asset_id |-> 1, name |-> "Model", status |-> "todo",
                  assignee |-> NONE, due_date |-> NULL, created_at |-> "T1"]}
           [] t = "approvals" ->
                {[id |-> 1, asset_id |-> 1, status |-> "approved", note |-> NONE,
                  created_at |-> "T1"]}
           [] t = "schedules" ->
                {[id |-> 1, asset_id |-> 1, task |-> "Model", due_date |-> 20250110,
                  status |-> "scheduled", created_at |-> "T1"]}

LegacyDb(c, cols, withRows) ==
    LET tables == TablesAt(c)
        rows(t) == IF withRows THEN LegacyRows(t, tables, cols) ELSE {}
    IN  [tables |-> tables, assetCols |-> cols, versions |-> 1..c,
         projects |-> rows("projects"), shots |-> rows("shots"),
         assets |-> rows("assets"), tasks |-> rows("tasks"),
         approvals |-> rows("approvals"), schedules |-> rows("schedules"),
         seq |-> [t \in EntityTables |-> Cardinality(rows(t))]]

\* the columns migration 7 adds, in the order of its statements
AlterOrder == <<"project_id", "shot_id">>

\* assets has both columns from version 7 on and neither before version 6; a
\* file at version 6 has those a run of migration 7 that stopped between two
\* statements left (each statement of a script is committed on its own)
LegacyFiles(rowChoices) ==
    { LegacyDb(x[1], x[2], x[3]) :
        x \in { y \in (0..LatestVersion) \X (SUBSET OptionalAssetCols) \X rowChoices :
                  /\ y[1] < 6 => y[2] = {}
                  /\ y[1] = 6 => \E k \in 0..Len(AlterOrder) :
                                     y[2] = { AlterOrder[j] : j \in 1..k }
                  /\ y[1] >= 7 => y[2] = OptionalAssetCols } }

\* a file an earlier version left, with or without rows
MigInit ==
    /\ db \in LegacyFiles(BOOLEAN)
    /\ purge = Idle
    /\ ret = NoRet
    /\ initOk = FALSE
    /\ loc = NoLoc

\* `db init`, with and without a failing statement, and the commands that
\* only read after their init_db call
MigNext ==
    \/ \E f \in RealFaults : DbInit(f)
    \/ List
    \/ ReportSummary

SpecMig == MigInit /\ [][MigNext]_vars

\* a file an earlier version left, empty; then every command, and `db init`
\* with and without a failing statement
AllInit ==
    /\ db \in LegacyFiles({FALSE})
    /\ purge = Idle
    /\ ret = NoRet
    /\ initOk = FALSE
    /\ loc = NoLoc

AllNext ==
    \/ \E f \in RealFaults : DbInit(f)
    \/ Commands

SpecAll == AllInit /\ [][AllNext]_vars

\* where the database file is: the environment changes, `db path` and
\* `db init` run with and without --db
PathInit ==
    /\ db = EmptyDb
    /\ purge = Idle
    /\ ret = NoRet
    /\ initOk = FALSE
    /\ loc \in { [NoLoc EXCEPT !.env = v] : v \in EnvInputs }

PathNext ==
    \/ \E v \in EnvInputs : SetEnv(v)
    \/ \E arg \in PathInputs : DbPath(arg)
    \/ \E arg \in PathInputs : DbInitAt(arg)

SpecPath == PathInit /\ [][PathNext]_vars

(***************************************************************************)
(* Properties                                                              *)
(***************************************************************************)
LeafTables == {"tasks", "approvals", "schedules"}

\* the shots of project p and the assets under p (directly or via a shot) in d
ShotsOf(d, p) == { s \in d.shots : s.project_id = p }
AssetsUnder(d, p) ==
    { a \in d.assets : a.project_id = p \/ a.shot_id \in Ids(ShotsOf(d, p)) }

PurgeDone == ret.op = "purge" /\ ret.status = "ok"

\* C1: cascade completeness.  After a purge has completed, for every project
\* it targeted: no shot of the project, no asset that was under the project
\* (directly by project_id or via one of its shots) and no task, approval or
\* schedule of such an asset exists, and list_shots and list_assets filtered by
\* the project are empty.
C1_CascadeComplete ==
    PurgeDone =>
        \A p \in ret.targets :
            LET gone == Ids(AssetsUnder(ret.pre, p))
            IN  /\ ShotsOf(db, p) = {}
                /\ Ids(db.shots) \cap Ids(ShotsOf(ret.pre, p)) = {}
                /\ Ids(db.assets) \cap gone = {}
                /\ \A t \in LeafTables : \A r \in db[t] : r.asset_id \notin gone
                /\ list_shots(db, p) = <<>>
                /\ list_assets(db, p, NULL) = <<>>

\* a purge completed that removed an asset placed under the project only via a
\* shot, together with a task of that asset
C1_Witness ==
    /\ PurgeDone
    /\ \E p \in ret.targets : \E a \in AssetsUnder(ret.pre, p) :
           /\ a.project_id # p
           /\ \E t \in ret.pre.tasks : t.asset_id = a.id

\* the database as it was when the purge now running, or just ended, began
InPurge == purge.pc = "run" \/ (ret.op = "purge" /\ ret.status \in {"ok", "error"})
PurgePre == IF purge.pc = "run" THEN purge.pre ELSE ret.pre
PurgeRemoved(t) == Ids(PurgePre[t]) \ Ids(db[t])

\* C2: purge ordering.  After any prefix of the delete statements of a purge,
\* also when the purge stopped there on a failure: no remaining schedule,
\* approval or task names an asset the purge has removed, no remaining asset
\* names a removed shot or project, no remaining shot names a removed project.
C2_PurgeOrdering ==
    InPurge =>
        /\ \A t \in LeafTables : \A r \in db[t] :
               r.asset_id \notin PurgeRemoved("assets")
        /\ \A a \in db.assets :
               /\ a.shot_id \notin PurgeRemoved("shots")
               /\ a.project_id \notin PurgeRemoved("projects")
        /\ \A s \in db.shots : s.project_id \notin PurgeRemoved("projects")

\* a purge that failed after it had removed an asset with a task, while the
\* shot the asset was placed in is still there
C2_Witness ==
    /\ ret.op = "purge" /\ ret.status = "error" /\ purge.pc = "idle"
    /\ \E a \in ret.pre.assets :
           /\ a.id \in PurgeRemoved("assets")
           /\ shot_exists(db, a.shot_id)
           /\ \E t \in ret.pre.tasks : t.asset_id = a.id

InitReturned == ret.op = "init" /\ ret.status = "ok"

\* C3: idempotent init.  On a file a successful init has left, init applies
\* nothing, raises nothing and leaves the version rows, the schema and the
\* rows as they are.
C3_IdempotentInit ==
    initOk =>
        \A f \in RealFaults :
            LET r == init_db(db, f)
            IN  r.err = "" /\ r.applied = 0 /\ r.db = db

\* `db init` was repeated on a file whose migration 7 an earlier init had
\* passed over
C3_Witness ==
    /\ InitReturned /\ ret.applied = 0 /\ ret.from = db
    /\ 7 \notin db.versions /\ _current_version(db) = LatestVersion

\* C4: upgrade without data loss.  An init that returns on a file at version
\* 1..latest-1 leaves the file at the latest version with every row it had
\* unchanged, and with the tables and columns it had.
C4_UpgradeKeepsRows ==
    (InitReturned /\ _current_version(ret.from) \in 1..(LatestVersion - 1)) =>
        /\ _current_version(db) = LatestVersion
        /\ \A t \in EntityTables : db[t] = ret.from[t]
        /\ ret.from.tables \subseteq db.tables
        /\ ret.from.assetCols \subseteq db.assetCols

\* a file from before migration 7 with an asset row was upgraded and gained
\* both columns
C4_Witness ==
    /\ InitReturned
    /\ _current_version(ret.from) \in 2..6
    /\ ret.from.assets # {} /\ ret.from.assetCols = {}
    /\ db.assetCols = OptionalAssetCols

\* the errors init passed over, if any, were all duplicate-column errors
OnlyDuplicates == ret.swallowed \subseteq {"duplicate column name"}

\* C5 (the instance the claim names): when init has returned, having passed
\* over nothing but duplicate-column errors, and the recorded version is 7 or
\* more, assets has both project_id and shot_id.
C5_ColumnsAtVersion7 ==
    (InitReturned /\ OnlyDuplicates /\ _current_version(db) >= 7) =>
        OptionalAssetCols \subseteq db.assetCols

\* C6: the only error init passes over is an add-column statement failing on
\* a column that exists; an init that met any other error has raised it.
C6_ErrorWhitelist ==
    ret.op = "init" => OnlyDuplicates

\* C7: once init_db has returned on a file that started absent, the recorded
\* schema version is 9.
C7_FreshVersion ==
    initOk => _current_version(db) = 9

\* C8: an init that returns on a file at version c has recorded a version row
\* for each registry entry above c and for nothing else, and its appliedCount
\* is the number of version rows it added (stated for an init that passed
\* over nothing but duplicate-column errors).
C8_PendingApplied ==
    (InitReturned /\ OnlyDuplicates) =>
        LET c == _current_version(ret.from)
            added == db.versions \ ret.from.versions
        IN  /\ added = (c + 1)..LatestVersion
            /\ ret.applied = Cardinality(added)

\* C9: no step of any command, init failed or not, lowers the recorded schema
\* version.
C9_VersionMonotonic ==
    [][_current_version(db)' >= _current_version(db)]_vars

\* a purge completed on a file whose init had passed over migration 7
C9_Witness ==
    /\ PurgeDone /\ ret.count > 0
    /\ _current_version(db) = LatestVersion /\ 7 \notin db.versions

\* every reference names an existing row
RefOK(d) ==
    /\ \A s \in d.shots : project_exists(d, s.project_id)
    /\ \A a \in d.assets :
           /\ a.project_id # NULL => project_exists(d, a.project_id)
           /\ a.shot_id # NULL => shot_exists(d, a.shot_id)
    /\ \A t \in LeafTables : \A r \in d[t] : asset_exists(d, r.asset_id)

\* C10 as claimed: in every state reachable through the CLI's add, update,
\* delete and purge commands every reference names an existing row.
C10_Referential == RefOK(db)

\* C10 as amended: every step of a command other than `project delete`,
\* `shot delete` and `asset delete` (each delete statement of a purge
\* included) keeps every reference naming an existing row.
C10_RefPreserved ==
    [][(RefOK(db) /\ ~(ProjectDelete \/ ShotDelete \/ AssetDelete)) => RefOK(db)']_vars

\* an asset placed in a project and a shot, with a task, all references good
C10_Witness ==
    /\ RefOK(db)
    /\ \E a \in db.assets :
           /\ a.project_id # NULL /\ a.shot_id # NULL
           /\ \E t \in db.tasks : t.asset_id = a.id

\* the rows and the id counters of every entity table are the same in d and e
SameRows(d, e) == (\A t \in EntityTables : d[t] = e[t]) /\ d.seq = e.seq

\* the command ended with "... ID not found" and no row was touched
Refused(o) == o.status = "ID not found" /\ SameRows(o.db, db)

AnyRef == IdInputs \cup {NULL}

\* C11: caller gate.  An add command that names a parent id that does not
\* exist, an update command that names a new parent id that does not exist,
\* and an update or delete command on an id that does not exist end with
\* "ID not found" and create, change and remove no row.
C11_CallerGate ==
    LET i == init_db(db, NoFault)
        Missing(t) == { x \in IdInputs : ~_id_exists(i.db, t, x) }
    IN  i.err = "" =>
        /\ \A p \in Missing("projects") :
             /\ Refused(shot_cmd_add(i, p, "S010", "Opening", "T1"))
             /\ \A s \in AnyRef :
                    Refused(asset_cmd_add(i, "Hero", "character", "todo", p, s, "T1"))
             /\ \A s \in IdInputs : Refused(shot_cmd_update(i, s, p, NONE, NONE))
             /\ \A a \in IdInputs :
                    Refused(asset_cmd_update(i, a, NONE, NONE, NONE, p, NULL))
             /\ Refused(project_cmd_update(i, p, "Film", NONE))
             /\ Refused(project_cmd_delete(i, p))
        /\ \A s \in Missing("shots") :
             /\ \A p \in AnyRef :
                    Refused(asset_cmd_add(i, "Hero", "character", "todo", p, s, "T1"))
             /\ \A a \in IdInputs :
                    Refused(asset_cmd_update(i, a, NONE, NONE, NONE, NULL, s))
             /\ Refused(shot_cmd_update(i, s, NULL, NONE, "Opening"))
             /\ Refused(shot_cmd_delete(i, s))
        /\ \A a \in Missing("assets") :
             /\ Refused(task_cmd_add(i, a, "Model", "todo", NONE, NULL, "T1"))
             /\ Refused(approval_cmd_set(i, a, "approved", NONE, "T1"))
             /\ Refused(schedule_cmd_add(i, a, "Model", 20250110, "scheduled", "T1"))
             /\ \A x \in IdInputs :
                    /\ Refused(approval_cmd_update(i, x, a, NONE, NONE))
                    /\ Refused(schedule_cmd_update(i, x, a, NONE, NULL, NONE))
             /\ Refused(asset_cmd_update(i, a, NONE, NONE, "todo", NULL, NULL))
             /\ Refused(asset_cmd_delete(i, a))
        /\ \A x \in Missing("approvals") :
             /\ Refused(approval_cmd_update(i, x, NULL, "approved", NONE))
             /\ Refused(approval_cmd_delete(i, x))
        /\ \A x \in Missing("schedules") :
             /\ Refused(schedule_cmd_update(i, x, NULL, NONE, 20250110, NONE))
             /\ Refused(schedule_cmd_delete(i, x))

\* a command was refused on a database that holds a project, an asset and a
\* task, while one of the ids a command can name is not an asset
C11_Witness ==
    /\ ret.op = "cmd" /\ ret.status = "ID not found"
    /\ db.projects # {} /\ db.assets # {} /\ db.tasks # {}
    /\ \E a \in IdInputs : ~asset_exists(db, a)

GatedTables == {"projects", "shots", "assets"}

Exists(d, t, id) ==
    CASE t = "projects" -> project_exists(d, id)
      [] t = "shots" -> shot_exists(d, id)
      [] t = "assets" -> asset_exists(d, id)

\* C12: existence gate.  For project_exists, shot_exists and asset_exists, over
\* every step: an id no create has returned does not exist; the id a create
\* has just returned exists; an id that exists keeps existing over every step
\* that is not a delete or a purge statement; an id whose row the step removed
\* does not exist, and no id but a newly returned one comes to exist.
C12_ExistenceGate ==
    [][\A t \in GatedTables : \A id \in 1..(MaxId + 1) :
          /\ id > db'.seq[t] => ~Exists(db', t, id)
          /\ (db'.seq[t] > db.seq[t] /\ id = db'.seq[t]) => Exists(db', t, id)
          /\ (Exists(db, t, id)
                /\ ~(ProjectDelete \/ ShotDelete \/ AssetDelete \/ PurgeStep))
               => Exists(db', t, id)
          /\ id \in (Ids(db[t]) \ Ids(db'[t])) => ~Exists(db', t, id)
          /\ (~Exists(db, t, id) /\ Exists(db', t, id))
               => (id = db'.seq[t] /\ db'.seq[t] = db.seq[t] + 1)
      ]_vars

\* an asset was created and deleted while a later one is still there
C12_Witness ==
    \E id \in 1..db.seq["assets"] :
        /\ ~asset_exists(db, id)
        /\ \E other \in 1..db.seq["assets"] : other > id /\ asset_exists(db, other)

RowOf(rows, id) == CHOOSE r \in rows : r.id = id

\* e differs from d in nothing but the row id of table t, which is still there
OnlyRow(d, e, t, id) ==
    /\ \A o \in AllTables \ {t} : o \in EntityTables => e[o] = d[o]
    /\ e.seq = d.seq /\ e.tables = d.tables /\ e.versions = d.versions
    /\ e.assetCols = d.assetCols
    /\ { r \in e[t] : r.id # id } = { r \in d[t] : r.id # id }
    /\ Cardinality({ r \in e[t] : r.id = id }) = 1

Kept(new, old, fields) == \A f \in fields : new[f] = old[f]
TxtSet(new, old, v) == new = (IF v = NONE THEN old ELSE v)
RefSet(new, old, v) == new = (IF v = NULL THEN old ELSE v)

\* values an update can supply: not supplied, or a value no row has yet
NewTxt == {NONE, "changed"}
NewDue == {NULL, 20250212}

C13_Project ==
    \A id \in Ids(db.projects), name \in NewTxt, code \in NewTxt :
        LET u == update_project(db, id, name, code)
            old == RowOf(db.projects, id)
        IN  IF name = NONE /\ code = NONE THEN ~u.updated /\ u.db = db
            ELSE /\ u.updated /\ OnlyRow(db, u.db, "projects", id)
                 /\ LET new == RowOf(u.db.projects, id)
                    IN  /\ TxtSet(new.name, old.name, name)
                        /\ TxtSet(new.code, old.code, code)
                        /\ Kept(new, old, {"id", "created_at"})

C13_Shot ==
    \A id \in Ids(db.shots), pid \in AnyRef, code \in NewTxt, name \in NewTxt :
        LET u == update_shot(db, id, pid, code, name)
            old == RowOf(db.shots, id)
        IN  IF pid = NULL /\ code = NONE /\ name = NONE THEN ~u.updated /\ u.db = db
            ELSE /\ u.updated /\ OnlyRow(db, u.db, "shots", id)
                 /\ LET new == RowOf(u.db.shots, id)
                    IN  /\ RefSet(new.project_id, old.project_id, pid)
                        /\ TxtSet(new.code, old.code, code)
                        /\ TxtSet(new.name, old.name, name)
                        /\ Kept(new, old, {"id", "created_at"})

C13_Asset ==
    \A id \in Ids(db.assets), name \in NewTxt, type \in {NONE}, status \in NewTxt,
       pid \in AnyRef, sid \in AnyRef :
        LET u == update_asset(db, id, name, type, status, pid, sid)
            old == RowOf(db.assets, id)
        IN  IF name = NONE /\ status = NONE /\ pid = NULL /\ sid = NULL
            THEN ~u.updated /\ u.db = db
            ELSE /\ u.updated /\ OnlyRow(db, u.db, "assets", id)
                 /\ LET new == RowOf(u.db.assets, id)
                    IN  /\ TxtSet(new.name, old.name, name)
                        /\ TxtSet(new.status, old.status, status)
                        /\ RefSet(new.project_id, old.project_id, pid)
                        /\ RefSet(new.shot_id, old.shot_id, sid)
                        /\ Kept(new, old, {"id", "created_at", "asset_type"})

C13_Approval ==
    \A id \in Ids(db.approvals), aid \in AnyRef, status \in NewTxt, note \in NewTxt :
        LET u == update_approval(db, id, aid, status, note)
            old == RowOf(db.approvals, id)
        IN  IF aid = NULL /\ status = NONE /\ note = NONE THEN ~u.updated /\ u.db = db
            ELSE /\ u.updated /\ OnlyRow(db, u.db, "approvals", id)
                 /\ LET new == RowOf(u.db.approvals, id)
                    IN  /\ RefSet(new.asset_id, old.asset_id, aid)
                        /\ TxtSet(new.status, old.status, status)
                        /\ TxtSet(new.note, old.note, note)
                        /\ Kept(new, old, {"id", "created_at"})

C13_Schedule ==
    \A id \in Ids(db.schedules), aid \in AnyRef, task \in NewTxt, due \in NewDue,
       status \in NewTxt :
        LET u == update_schedule(db, id, aid, task, due, status)
            old == RowOf(db.schedules, id)
        IN  IF aid = NULL /\ task = NONE /\ due = NULL /\ status = NONE
            THEN ~u.updated /\ u.db = db
            ELSE /\ u.updated /\ OnlyRow(db, u.db, "schedules", id)
                 /\ LET new == RowOf(u.db.schedules, id)
                    IN  /\ RefSet(new.asset_id, old.asset_id, aid)
                        /\ TxtSet(new.task, old.task, task)
                        /\ RefSet(new.due_date, old.due_date, due)
                        /\ TxtSet(new.status, old.status, status)
                        /\ Kept(new, old, {"id", "created_at"})

\* the update commands report "No updates provided" when no option is given
C13_NoUpdates ==
    LET i == init_db(db, NoFault)
        None(o) == o.status = "No updates provided" /\ SameRows(o.db, db)
    IN  i.err = "" =>
        /\ \A id \in Ids(db.projects) : None(project_cmd_update(i, id, NONE, NONE))
        /\ \A id \in Ids(db.shots) : None(shot_cmd_update(i, id, NULL, NONE, NONE))
        /\ \A id \in Ids(db.assets) :
               None(asset_cmd_update(i, id, NONE, NONE, NONE, NULL, NULL))
        /\ \A id \in Ids(db.approvals) :
               None(approval_cmd_update(i, id, NULL, NONE, NONE))
        /\ \A id \in Ids(db.schedules) :
               None(schedule_cmd_update(i, id, NULL, NONE, NULL, NONE))

\* C13: partial update.  An update with no field supplied returns false (the
\* command reports "No updates provided") and changes nothing; an update with
\* fields supplied returns true and sets exactly those fields of the row with
\* that id: its other fields, id and created_at among them, and every other
\* row stay as they were.
C13_PartialUpdate ==
    /\ C13_Project /\ C13_Shot /\ C13_Asset /\ C13_Approval /\ C13_Schedule
    /\ C13_NoUpdates

\* an update command was given no option, on a database with two shots, one
\* of them moved to the other project, and an asset
C13_Witness ==
    /\ ret.op = "cmd" /\ ret.status = "No updates provided"
    /\ Cardinality(db.shots) = 2 /\ db.assets # {}
    /\ \E s \in db.shots : s.id # s.project_id

\* e is d without the row id of table t, and nothing else differs
OnlyGone(d, e, t, id) ==
    /\ e[t] = { r \in d[t] : r.id # id }
    /\ Cardinality(e[t]) + 1 = Cardinality(d[t])
    /\ \A o \in EntityTables \ {t} : e[o] = d[o]
    /\ e.seq = d.seq

\* C14: narrow delete does not cascade.  Deleting one project, shot or asset
\* removes the row with that id from its table and nothing else: the shots,
\* assets, tasks, approvals and schedules that name the removed row are still
\* there, naming it.
C14_NarrowDelete ==
    LET i == init_db(db, NoFault)
        Narrow(o, t, id) == o.status = "ok" /\ OnlyGone(db, o.db, t, id)
    IN  i.err = "" =>
        /\ \A id \in Ids(db.projects) :
             /\ Narrow(project_cmd_delete(i, id), "projects", id)
             /\ OnlyGone(db, delete_project(db, id), "projects", id)
             /\ \A s \in db.shots :
                    s.project_id = id => s \in project_cmd_delete(i, id).db.shots
             /\ \A a \in db.assets :
                    a.project_id = id => a \in project_cmd_delete(i, id).db.assets
        /\ \A id \in Ids(db.shots) :
             /\ Narrow(shot_cmd_delete(i, id), "shots", id)
             /\ OnlyGone(db, delete_shot(db, id), "shots", id)
             /\ \A a \in db.assets :
                    a.shot_id = id => a \in shot_cmd_delete(i, id).db.assets
        /\ \A id \in Ids(db.assets) :
             /\ Narrow(asset_cmd_delete(i, id), "assets", id)
             /\ OnlyGone(db, delete_asset(db, id), "assets", id)
             /\ \A t \in LeafTables : \A r \in db[t] :
                    r.asset_id = id => r \in asset_cmd_delete(i, id).db[t]

\* a project and an asset were deleted; the shot of the project and the task
\* of the asset are still there
C14_Witness ==
    /\ ret.op = "cmd" /\ ret.status = "ok"
    /\ \E s \in db.shots : ~project_exists(db, s.project_id)
    /\ \E t \in db.tasks : ~asset_exists(db, t.asset_id)

\* the ids of table t the completed purge removed
Purged(t) == Ids(ret.pre[t]) \ Ids(db[t])

\* C15: purge count.  A confirmed purge that completed reports the number of
\* project rows it removed, which for a purge of all projects is the number of
\* projects there were; afterwards no row names a project the purge removed,
\* or a shot or asset it removed with it.
C15_PurgeCount ==
    PurgeDone =>
        /\ ret.count = Cardinality(Purged("projects"))
        /\ ret.all => /\ ret.count = Cardinality(ret.pre.projects)
                      /\ db.projects = {}
        /\ \A s \in db.shots : s.project_id \notin Purged("projects")
        /\ \A a \in db.assets :
               /\ a.project_id \notin Purged("projects")
               /\ a.shot_id \notin Purged("shots")
        /\ \A t \in LeafTables : \A r \in db[t] : r.asset_id \notin Purged("assets")

\* a purge of all projects removed two, one of them with a shot and an asset
C15_Witness ==
    /\ PurgeDone /\ ret.all /\ ret.count = 2
    /\ ret.pre.shots # {} /\ ret.pre.assets # {} /\ db.assets = {}

C18_ReportConsistency ==
    LET counts == report_summary(db).counts
    IN  /\ counts["projects"] = Len(list_projects(db))
        /\ counts["shots"] = Len(list_shots(db, NULL))
        /\ counts["assets"] = Len(list_assets(db, NULL, NULL))
        /\ counts["tasks"] = Len(list_tasks(db, NULL))
        /\ counts["approvals"] = Len(list_approvals(db, NULL))
        /\ counts["schedules"] = Len(list_schedules(db, NULL))

\* rows were created and deleted: one asset is counted, and a task whose
\* asset is gone
C18_Witness ==
    /\ report_summary(db).counts["assets"] = 1
    /\ \E t \in db.tasks : ~asset_exists(db, t.asset_id)
    /\ ret.op = "cmd" /\ ret.status = "ok"

\* the path p with a leading "~" replaced by the home directory
Expanded(p) == IF p[1] = "~" THEN <<"home", "user">> \o Tail(p) ELSE p

\* the environment override is set and not empty
EnvGiven(env) == env # <<>> /\ env[1] # <<>>

DefaultPath == <<"home", "user", ".pipely", "pipely.db">>

\* the explicit argument, else the environment override, else the default
ArgEnvDefault(arg, env) ==
    IF arg # <<>> THEN Expanded(arg[1])
    ELSE IF EnvGiven(env) THEN Expanded(env[1])
    ELSE DefaultPath

\* the environment override, else the explicit argument, else the default
EnvArgDefault(arg, env) ==
    IF EnvGiven(env) THEN Expanded(env[1])
    ELSE IF arg # <<>> THEN Expanded(arg[1])
    ELSE DefaultPath

\* C19: file location resolution.  resolve_db_path returns the explicit path
\* argument (its "~" expanded) whenever one is given, whatever the environment
\* variable holds; otherwise the environment override when it is set and not
\* empty; otherwise the default path under the home directory.
C19_ResolveOrder ==
    /\ \A arg \in PathInputs :
           resolve_db_path(loc.env, arg) = ArgEnvDefault(arg, loc.env)
    /\ ret.op = "path" => ret.path = ArgEnvDefault(ret.arg, ret.env)

\* `db path --db ~/work.db` ran while PIPELY_DB was set to another path
C19_Witness ==
    /\ ret.op = "path" /\ EnvGiven(ret.env)
    /\ ret.arg = << <<"~", "work.db">> >>
    /\ ret.path = <<"home", "user", "work.db">>

\* C20 as claimed: init opens the environment-override path when the override
\* is set, the explicit argument only when it is not, the default when neither
\* is given.
C20_InitEnvFirst ==
    ret.op = "init_at" => ret.path = EnvArgDefault(ret.arg, ret.env)

\* C20 as amended: init opens the explicit argument when one is given, the
\* environment override only when none is, the default when neither is given;
\* the file at that path is the one it migrates and no other file changes.
C20_InitArgFirst ==
    ret.op = "init_at" =>
        /\ ret.path = ArgEnvDefault(ret.arg, ret.env)
        /\ \E f \in loc.files :
               f.path = ret.path /\ _current_version(f.db) = LatestVersion
        /\ { f \in loc.files : f.path # ret.path }
             = { f \in ret.before : f.path # ret.path }

\* init ran with --db while PIPELY_DB was set: the file at the --db path
\* exists and none was made at the PIPELY_DB path
C20_Witness ==
    /\ ret.op = "init_at" /\ ret.status = "ok"
    /\ EnvGiven(ret.env) /\ ret.arg # <<>>
    /\ \E f \in loc.files : f.path = Expanded(ret.arg[1])
    /\ \A f \in loc.files : f.path # Expanded(ret.env[1])

\* C21: created_at is immutable.  Over every step of every command (update,
\* delete, purge statement, init), each row that is still there after the step
\* has the created_at it had before it.
C21_CreatedAtImmutable ==
    [][\A t \in EntityTables : \A r \in db[t] :
          r.id \in Ids(db'[t]) => RowOf(db'[t], r.id).created_at = r.created_at
      ]_vars

\* a purge of one project completed while a shot of another project is
\* still in the database
C21_Witness ==
    /\ PurgeDone /\ ret.count = 1 /\ ~ret.all
    /\ \E s \in db.shots : s.created_at = "T1" /\ project_exists(db, s.project_id)

\* the reference ref, into table t, names no row of d
Dangling(d, t, ref) == ref # NULL /\ ~_id_exists(d, t, ref)

\* C22: identifiers are monotonic and never reused.  For each kind, over every
\* step: the ids in use are among those handed out, a row the step creates has
\* an id greater than every id handed out before (also when the rows with
\* those ids are gone), and a reference that names no row before the step
\* names no row after it.
C22_IdsNeverReused ==
    [][/\ \A t \in EntityTables :
             /\ Ids(db[t]) \subseteq 1..db.seq[t]
             /\ db'.seq[t] >= db.seq[t]
             /\ \A id \in Ids(db'[t]) \ Ids(db[t]) :
                    id > db.seq[t] /\ id = db'.seq[t]
       /\ \A s \in db.shots \cap db'.shots :
              Dangling(db, "projects", s.project_id)
                => Dangling(db', "projects", s.project_id)
       /\ \A a \in db.assets \cap db'.assets :
              /\ Dangling(db, "projects", a.project_id)
                   => Dangling(db', "projects", a.project_id)
              /\ Dangling(db, "shots", a.shot_id)
                   => Dangling(db', "shots", a.shot_id)
       /\ \A t \in LeafTables : \A r \in db[t] \cap db'[t] :
              Dangling(db, "assets", r.asset_id)
                => Dangling(db', "assets", r.asset_id)
      ]_vars

\* the only project there was, project 1, was deleted and a project created
\* after it: it is project 2, and the shot of project 1 still names project 1
C22_Witness ==
    /\ Ids(db.projects) = {2}
    /\ \E s \in db.shots : s.project_id = 1
    /\ ret.op = "cmd" /\ ret.status = "ok"

\* the sequence s holds each row of rows once and nothing else
ListsExactly(s, rows) == Len(s) = Cardinality(rows) /\ Range(s) = rows

\* s is in ascending order of id
AscendingId(s) == \A i, j \in DOMAIN s : i < j => s[i].id < s[j].id

\* s is in ascending order of due date, rows of one date in ascending order of id
AscendingDueThenId(s) ==
    \A i, j \in DOMAIN s :
        i < j => \/ s[i].due_date < s[j].due_date
                 \/ s[i].due_date = s[j].due_date /\ s[i].id < s[j].id

\* the rows whose column col holds ref, every row when no ref is given
Matching(rows, col, ref) == { r \in rows : ref = NULL \/ r[col] = ref }

\* C23: a list with no filter returns every row of the kind, a list with
\* parent-id filters returns exactly the rows matching all the filters given
\* (assets: project_id and shot_id), each row once, in ascending order of id,
\* schedules in order of due date and then id.
C23_ListFilters ==
    \A p, q \in IdInputs \cup {NULL} :
        /\ ListsExactly(list_projects(db), db.projects)
        /\ AscendingId(list_projects(db))
        /\ ListsExactly(list_shots(db, p), Matching(db.shots, "project_id", p))
        /\ AscendingId(list_shots(db, p))
        /\ ListsExactly(list_assets(db, p, q),
                        Matching(db.assets, "project_id", p)
                          \cap Matching(db.assets, "shot_id", q))
        /\ AscendingId(list_assets(db, p, q))
        /\ ListsExactly(list_tasks(db, p), Matching(db.tasks, "asset_id", p))
        /\ AscendingId(list_tasks(db, p))
        /\ ListsExactly(list_approvals(db, p), Matching(db.approvals, "asset_id", p))
        /\ AscendingId(list_approvals(db, p))
        /\ ListsExactly(list_schedules(db, p), Matching(db.schedules, "asset_id", p))
        /\ AscendingDueThenId(list_schedules(db, p))

\* two schedules, the later one due first: the list starts with schedule 2
C23_Witness ==
    /\ \E a, b \in db.schedules : a.id < b.id /\ b.due_date < a.due_date
    /\ Len(list_schedules(db, NULL)) = 2
    /\ Head(list_schedules(db, NULL)).id = 2
    /\ ret.op = "cmd" /\ ret.status = "ok"

(***************************************************************************)
(* The repository functions called directly, without the checks of the     *)
(* command layer: any parent id may be passed.                             *)
(***************************************************************************)
\* a call of create_* on table t with the given parent ids returned r
StoreCall(t, parents, r) ==
    /\ purge.pc = "idle"
    /\ db' = r.db
    /\ ret' = [op |-> "create", status |-> IF r.err = "" THEN "ok" ELSE "error",
               table |-> t, parents |-> parents, id |-> r.id, err |-> r.err]
    /\ UNCHANGED <<purge, initOk, loc>>

StoreCreateProject ==
    \E name \in Names, code \in Codes, now \in Times :
        /\ CanCreate("projects")
        /\ StoreCall("projects", {}, create_project(db, name, code, now))

StoreCreateShot ==
    \E pid \in IdInputs, code \in ShotCodes, name \in ShotNames, now \in Times :
        /\ CanCreate("shots")
        /\ StoreCall("shots", {<<"projects", "project_id", pid>>},
                     create_shot(db, pid, code, name, now))

StoreCreateAsset ==
    \E name \in AssetNames, type \in AssetTypes, status \in Statuses,
       pid \in IdInputs \cup {NULL}, sid \in IdInputs \cup {NULL}, now \in Times :
        /\ CanCreate("assets")
        /\ StoreCall("assets",
                     {<<"projects", "project_id", pid>>, <<"shots", "shot_id", sid>>},
                     create_asset(db, name, type, status, pid, sid, now))

StoreCreateTask ==
    \E aid \in IdInputs, name \in TaskNames, status \in TaskStatuses, now \in Times :
        /\ CanCreate("tasks")
        /\ StoreCall("tasks", {<<"assets", "asset_id", aid>>},
                     create_task(db, aid, name, status, NULL, NULL, now))

StoreCreateApproval ==
    \E aid \in IdInputs, status \in ApprovalStatuses, now \in Times :
        /\ CanCreate("approvals")
        /\ StoreCall("approvals", {<<"assets", "asset_id", aid>>},
                     create_approval(db, aid, status, NULL, now))

StoreCreateSchedule ==
    \E aid \in IdInputs, task \in TaskNames, due \in Dates,
       status \in ScheduleStatuses, now \in Times :
        /\ CanCreate("schedules")
        /\ StoreCall("schedules", {<<"assets", "asset_id", aid>>},
                     create_schedule(db, aid, task, due, status, now))

StoreNext ==
    \/ DbInit(NoFault)
    \/ StoreCreateProject
    \/ StoreCreateShot
    \/ StoreCreateAsset
    \/ StoreCreateTask
    \/ StoreCreateApproval
    \/ StoreCreateSchedule

SpecStore == Init /\ [][StoreNext]_vars

\* C27: foreign keys are not enforced by the repository functions.  On an
\* initialised database a create_shot, create_asset, create_task,
\* create_approval or create_schedule that is passed a parent id naming no row
\* succeeds: it returns an id not handed out before and the table gains
\* exactly one row, which has that id and the parent ids passed.
C27_DanglingCreate ==
    [][(/\ ret'.op = "create"
        /\ _current_version(db) = LatestVersion
        /\ \E par \in ret'.parents : Dangling(db, par[1], par[3]))
       => /\ ret'.err = ""
          /\ ret'.id = db.seq[ret'.table] + 1
          /\ ret'.id \notin Ids(db[ret'.table])
          /\ \E row \in db'[ret'.table] :
                /\ row.id = ret'.id
                /\ \A par \in ret'.parents : row[par[2]] = par[3]
                /\ db'[ret'.table] = db[ret'.table] \cup {row}
          /\ \A t \in EntityTables \ {ret'.table} : db'[t] = db[t]
      ]_vars

\* an asset was created under project 2 and shot 1 while there is a shot 1
\* but no project 2, and the asset is in the table
C27_Witness ==
    /\ ret.op = "create" /\ ret.table = "assets" /\ ret.err = ""
    /\ <<"projects", "project_id", 2>> \in ret.parents
    /\ ~project_exists(db, 2) /\ shot_exists(db, 1)
    /\ \E a \in db.assets : a.id = ret.id /\ a.project_id = 2 /\ a.shot_id = 1

\* the add and update commands only: nothing is deleted
AddUpdateNext ==
    \/ DbInit(NoFault)
    \/ ProjectAdd \/ ProjectUpdate
    \/ ShotAdd \/ ShotUpdate
    \/ AssetAdd \/ AssetUpdate
    \/ TaskAdd
    \/ ApprovalSet \/ ApprovalUpdate
    \/ ScheduleAdd \/ ScheduleUpdate

SpecAddUpdate == Init /\ [][AddUpdateNext]_vars

\* the assets placed in both a project and a shot
PlacedAssets == { a \in db.assets : a.project_id # NULL /\ a.shot_id # NULL }

\* C29 as claimed: in every state reachable through the add and update
\* commands, an asset with both a project_id and a shot_id references a shot
\* whose own project_id is the asset's project_id.
C29_PlacementConsistent ==
    \A a \in PlacedAssets :
        \E s \in db.shots : s.id = a.shot_id /\ s.project_id = a.project_id

\* C29 as amended: in every state reachable through the add and update
\* commands, an asset with both a project_id and a shot_id references an
\* existing project and an existing shot, and that shot references an
\* existing project, which need not be the asset's.
C29_PlacementExists ==
    \A a \in PlacedAssets :
        /\ project_exists(db, a.project_id)
        /\ \E s \in db.shots : s.id = a.shot_id /\ project_exists(db, s.project_id)

\* an asset placed in project 2 and in a shot of project 1
C29_Witness ==
    \E a \in PlacedAssets : \E s \in db.shots :
        /\ s.id = a.shot_id /\ s.project_id # a.project_id
        /\ project_exists(db, a.project_id) /\ project_exists(db, s.project_id)

\* a purge of the single project p ended, completed or not
PurgeOfOne(p) ==
    /\ ret.op = "purge" /\ ret.status \in {"ok", "error"}
    /\ ~ret.all /\ ret.targets = {p}

\* C30: purge frame.  A purge of the single project P leaves in place, as
\* they were, every other project, every shot of another project, every asset
\* that was under P neither directly nor via one of P's shots (the assets with
\* no project and no shot among them) and every task, approval and schedule of
\* such an asset.
C30_PurgeFrame ==
    \A p \in IdInputs :
        PurgeOfOne(p) =>
            LET kept == ret.pre.assets \ AssetsUnder(ret.pre, p)
            IN  /\ { r \in ret.pre.projects : r.id # p } \subseteq db.projects
                /\ { s \in ret.pre.shots : s.project_id # p } \subseteq db.shots
                /\ kept \subseteq db.assets
                /\ \A t \in LeafTables :
                       { r \in ret.pre[t] : r.asset_id \in Ids(kept) } \subseteq db[t]

\* the purge of one project removed it; a second project, an asset with no
\* project and no shot and a row of that asset are still there
C30_Witness ==
    /\ PurgeDone /\ ~ret.all /\ ret.count = 1
    /\ db.projects # {} /\ db.projects # ret.pre.projects
    /\ \E a \in db.assets :
           /\ a.project_id = NULL /\ a.shot_id = NULL
           /\ \E t \in LeafTables : \E r \in db[t] : r.asset_id = a.id

(***************************************************************************)
(* The show store of core/db.py and the tools that use it.  Here the file  *)
(* db is the store's SQLite file; every command loads the whole file into  *)
(* a dict with load_db, changes the dict and writes it back with save_db.  *)
(* A string the code inspects (codes, ids, asset names, the tags column)   *)
(* is a sequence of one-character strings; an optional value is <<>> for   *)
(* None and <<v>> for v.  The columns both functions copy unread (root,    *)
(* path, template, description, created_at) are left out, and so are the   *)
(* folders on disk.                                                        *)
(***************************************************************************)
ShowCodes == {<<"p">>, <<"Q">>, <<"R">>}
ShowNames == {"Demo"}
LegacyAssetTypes == {<<"C", "H">>}
LegacyAssetNames == {<<"H", " ", "i">>}
LegacyShotCodes == {<<"s", "1">>}
LegacyTaskNames == {"Layout", "Anim"}
Kinds == {<<"a">>}
DEFAULT_STATUS == "design"
DEFAULT_SHOT_STATUS == "not_started"

\* str.upper, on the letters of the values above
UpperChar(c) == CASE c = "p" -> "P" [] c = "s" -> "S" [] c = "a" -> "A" [] OTHER -> c
upper(s) == [k \in DOMAIN s |-> UpperChar(s[k])]

\* str.startswith
startswith(s, prefix) ==
    Len(s) >= Len(prefix) /\ SubSeq(s, 1, Len(prefix)) = prefix

\* str.replace(old, new), old not empty
RECURSIVE replace(_, _, _)
replace(s, old, new) ==
    IF Len(s) < Len(old) THEN s
    ELSE IF startswith(s, old)
    THEN new \o replace(SubSeq(s, Len(old) + 1, Len(s)), old, new)
    ELSE <<Head(s)>> \o replace(Tail(s), old, new)

\* "".join(name.split())
clean_name(name) == SelectSeq(name, LAMBDA c : c # " ")

\* json.dumps of a list of tags: the tokens of the array
RECURSIVE JoinTags(_)
JoinTags(tags) ==
    IF tags = <<>> THEN <<>>
    ELSE IF Len(tags) = 1 THEN <<tags[1]>>
    ELSE <<tags[1], ",">> \o JoinTags(Tail(tags))

encode_tags(tags) == <<"[">> \o JoinTags(tags) \o <<"]">>

\* json.loads of the column, [] for NULL, "" and text that is not an array
decode_tags(value) ==
    IF value = <<>> THEN <<>>
    ELSE IF Head(value) # "[" \/ value[Len(value)] # "]" THEN <<>>
    ELSE LET inner == SubSeq(value, 2, Len(value) - 1)
         IN  [k \in 1..((Len(inner) + 1) \div 2) |-> inner[2 * k - 1]]

_asset_id(show_code, asset_type, name) ==
    upper(show_code) \o <<"_">> \o upper(asset_type) \o <<"_">> \o clean_name(name)

_shot_id(show_code, code) == show_code \o <<"_">> \o upper(code)

\* the id of the first version of a kind for a target
_next_version_id(data, target_id, kind) ==
    target_id \o <<"_">> \o kind \o <<"_", "v", "0", "0", "1">>

\* the tables _init_db creates, empty
EmptyStore ==
    [config |-> {}, shows |-> {}, assets |-> {}, shots |-> {}, tasks |-> <<>>,
     versions |-> {}]

\* the dict d with key k set to v, and with key k removed
Put(d, k, v) == [x \in DOMAIN d \cup {k} |-> IF x = k THEN v ELSE d[x]]
Del(d, k) == [x \in DOMAIN d \ {k} |-> d[x]]
Restrict(d, keys) == [x \in keys |-> d[x]]

\* the dict of the rows, keyed by column col
Keyed(rows, col) ==
    [k \in { r[col] : r \in rows } |-> CHOOSE r \in rows : r[col] = k]

load_db(f) ==
    LET config == [k \in { r.key : r \in f.config } |->
                       (CHOOSE r \in f.config : r.key = k).value]
        targets == { f.tasks[k].target_id : k \in DOMAIN f.tasks }
        entry(row) == [name |-> row.name, status |-> row.status,
                       updated_at |-> row.updated_at]
        rowsOf(t) == SelectSeq(f.tasks, LAMBDA row : row.target_id = t)
        untag(row) == [row EXCEPT !.tags = decode_tags(row.tags)]
        assets == Keyed(f.assets, "id")
        versions == Keyed(f.versions, "version_id")
    IN  [config |-> config,
         current_show |-> IF "current_show" \in DOMAIN config
                          THEN <<config["current_show"]>> ELSE <<>>,
         shows |-> Keyed(f.shows, "code"),
         assets |-> [k \in DOMAIN assets |-> untag(assets[k])],
         shots |-> Keyed(f.shots, "id"),
         tasks |-> [t \in targets |->
                       [k \in DOMAIN rowsOf(t) |-> entry(rowsOf(t)[k])]],
         versions |-> [k \in DOMAIN versions |-> untag(versions[k])]]

\* the rows of the tasks table: the lists of the targets, one after the other
RECURSIVE TaskRows(_, _)
TaskRows(tasks, keys) ==
    IF keys = {} THEN <<>>
    ELSE LET t == CHOOSE k \in keys : TRUE
         IN  [k \in DOMAIN tasks[t] |->
                 [target_id |-> t, name |-> tasks[t][k].name,
                  status |-> tasks[t][k].status,
                  updated_at |-> tasks[t][k].updated_at]]
             \o TaskRows(tasks, keys \ {t})

\* the values of the dict d
Values(d) == { d[k] : k \in DOMAIN d }

\* every table is emptied and written again from the dict: the config
\* entries, then the current_show row when data["current_show"] is set, then
\* one row per value of shows, assets, shots and versions (from the value's
\* own fields, not its key) and one row per task, under its key
save_db(data) ==
    LET cfg == { [key |-> k, value |-> data.config[k]] : k \in DOMAIN data.config }
        tag(row) == [row EXCEPT !.tags = encode_tags(row.tags)]
    IN  [config |-> IF data.current_show # <<>> /\ data.current_show[1] # <<>>
                    THEN { r \in cfg : r.key # "current_show" }
                         \cup {[key |-> "current_show",
                                value |-> data.current_show[1]]}
                    ELSE cfg,
         shows |-> Values(data.shows),
         assets |-> { tag(a) : a \in Values(data.assets) },
         shots |-> Values(data.shots),
         tasks |-> TaskRows(data.tasks, DOMAIN data.tasks),
         versions |-> { tag(v) : v \in Values(data.versions) }]

\* a command that printed a message and left with sys.exit(1)
Exit(f) == [db |-> f, status |-> "exit"]

\* a command that ran to its save_db
Saved(data) == [db |-> save_db(data), status |-> "ok", saved |-> data]

\* `shows create`
shows_cmd_create(f, show_code, name, now) ==
    LET data == load_db(f)
    IN  IF show_code \in DOMAIN data.shows THEN Exit(f)
        ELSE Saved([data EXCEPT
                      !.shows = Put(@, show_code,
                                    [code |-> show_code, name |-> name,
                                     updated_at |-> now]),
                      !.current_show = <<show_code>>])

\* `shows use`
shows_cmd_use(f, show_code) ==
    LET data == load_db(f)
    IN  IF show_code \notin DOMAIN data.shows THEN Exit(f)
        ELSE Saved([data EXCEPT !.current_show = <<show_code>>])

\* `assets add --show-code`
assets_cmd_add(f, show_code, type, name, now) ==
    LET data == load_db(f)
        asset_type == upper(type)
        asset_id == _asset_id(show_code, asset_type, name)
    IN  IF show_code \notin DOMAIN data.shows THEN Exit(f)
        ELSE IF asset_id \in DOMAIN data.assets THEN Exit(f)
        ELSE Saved([data EXCEPT
                      !.assets = Put(@, asset_id,
                                     [id |-> asset_id, show_code |-> show_code,
                                      type |-> asset_type, name |-> name,
                                      status |-> DEFAULT_STATUS, tags |-> <<>>,
                                      updated_at |-> now])])

\* `shots add --show-code`
shots_cmd_add(f, show_code, code, now) ==
    LET data == load_db(f)
        shot_id == _shot_id(show_code, code)
    IN  IF show_code \notin DOMAIN data.shows THEN Exit(f)
        ELSE IF shot_id \in DOMAIN data.shots THEN Exit(f)
        ELSE Saved([data EXCEPT
                      !.shots = Put(@, shot_id,
                                    [id |-> shot_id, code |-> upper(code),
                                     show_code |-> show_code,
                                     status |-> DEFAULT_SHOT_STATUS,
                                     updated_at |-> now])])

\* `tasks add`
tasks_cmd_add(f, target_id, task_name, now) ==
    LET data == load_db(f)
        tasks == IF target_id \in DOMAIN data.tasks THEN data.tasks[target_id]
                 ELSE <<>>
    IN  IF target_id \notin DOMAIN data.assets \cup DOMAIN data.shots THEN Exit(f)
        ELSE IF \E k \in DOMAIN tasks : tasks[k].name = task_name THEN Exit(f)
        ELSE Saved([data EXCEPT
                      !.tasks = Put(@, target_id,
                                    Append(tasks,
                                           [name |-> task_name,
                                            status |-> "not_started",
                                            updated_at |-> now]))])

\* `versions new`
versions_cmd_new(f, target_id, kind, now) ==
    LET data == load_db(f)
        target == IF target_id \in DOMAIN data.assets THEN data.assets[target_id]
                  ELSE data.shots[target_id]
        version_id == _next_version_id(data, target_id, kind)
    IN  IF target_id \notin DOMAIN data.assets \cup DOMAIN data.shots THEN Exit(f)
        ELSE Saved([data EXCEPT
                      !.versions = Put(@, version_id,
                                       [version_id |-> version_id,
                                        target_id |-> target_id, kind |-> kind,
                                        show_code |-> target.show_code,
                                        tags |-> <<>>, updated_at |-> now])])

\* `shows delete --force`
shows_cmd_delete(f, show_code) ==
    LET data == load_db(f)
        keep(d) == Restrict(d, { k \in DOMAIN d : d[k].show_code # show_code })
    IN  IF show_code \notin DOMAIN data.shows THEN Exit(f)
        ELSE Saved([data EXCEPT
                      !.assets = keep(@),
                      !.shots = keep(@),
                      !.tasks = Restrict(@, { k \in DOMAIN @ :
                                    ~startswith(k, show_code \o <<"_">>) }),
                      !.versions = keep(@),
                      !.shows = Del(@, show_code),
                      !.current_show = IF @ = <<show_code>> THEN <<>> ELSE @])

\* `shows rename OLD NEW`, without --name
shows_cmd_rename(f, old_code, new_code, now) ==
    LET data == load_db(f)
        \* the dict d with each key k replaced by key(k) and its value by
        \* val(k); of the entries that get one new key the code keeps the last
        Rekeyed(d, key(_), val(_)) ==
            [nk \in { key(k) : k \in DOMAIN d } |->
                val(CHOOSE k \in DOMAIN d : key(k) = nk)]
        of_old(d, k) == d[k].show_code = old_code
        asset_new_id(k) ==
            IF of_old(data.assets, k)
            THEN new_code \o <<"_">> \o data.assets[k].type \o <<"_">>
                 \o clean_name(data.assets[k].name)
            ELSE k
        shot_new_id(k) ==
            IF of_old(data.shots, k)
            THEN new_code \o <<"_">> \o data.shots[k].code
            ELSE k
        moved(d, k, new_id) ==
            IF of_old(d, k)
            THEN [d[k] EXCEPT !.show_code = new_code, !.id = new_id]
            ELSE d[k]
        asset_val(k) == moved(data.assets, k, asset_new_id(k))
        shot_val(k) == moved(data.shots, k, shot_new_id(k))
        in_id_map(k) ==
            \/ k \in DOMAIN data.assets /\ of_old(data.assets, k)
            \/ k \in DOMAIN data.shots /\ of_old(data.shots, k)
        \* a shot's entry of id_map is written after the assets' entries
        id_map(k) ==
            IF k \in DOMAIN data.shots /\ of_old(data.shots, k)
            THEN shot_new_id(k) ELSE asset_new_id(k)
        renamed(k) == replace(k, old_code \o <<"_">>, new_code \o <<"_">>)
        task_key(k) == IF in_id_map(k) THEN id_map(k) ELSE renamed(k)
        task_val(k) == data.tasks[k]
        version_val(k) ==
            IF of_old(data.versions, k)
            THEN [data.versions[k] EXCEPT !.show_code = new_code]
            ELSE data.versions[k]
    IN  IF old_code \notin DOMAIN data.shows THEN Exit(f)
        ELSE IF new_code \in DOMAIN data.shows THEN Exit(f)
        ELSE Saved([data EXCEPT
                      !.shows = Put(Del(@, old_code), new_code,
                                    [data.shows[old_code] EXCEPT
                                       !.code = new_code, !.updated_at = now]),
                      !.assets = Rekeyed(@, asset_new_id, asset_val),
                      !.shots = Rekeyed(@, shot_new_id, shot_val),
                      !.tasks = Rekeyed(@, task_key, task_val),
                      !.versions = Rekeyed(@, renamed, version_val),
                      !.current_show = IF @ = <<old_code>> THEN <<new_code>> ELSE @])

\* the rows of the store
StoreRows(f) ==
    Cardinality(f.shows) + Cardinality(f.assets) + Cardinality(f.shots)
    + Len(f.tasks) + Cardinality(f.versions)

\* the ids the commands can be given: those of the assets and shots there are
TargetIds(f) == { r.id : r \in f.assets \cup f.shots }

\* a command of the show store that ended with outcome o
LegacyCommand(op, args, o) ==
    /\ db' = o.db
    /\ ret' = [op |-> op, status |-> o.status, args |-> args, pre |-> load_db(db),
               saved |-> IF o.status = "ok" THEN <<o.saved>> ELSE <<>>]
    /\ UNCHANGED <<purge, initOk, loc>>

ShowsCreate ==
    \E c \in ShowCodes, n \in ShowNames, now \in Times :
        /\ StoreRows(db) < MaxRows
        /\ LegacyCommand("shows create", <<c>>, shows_cmd_create(db, c, n, now))

ShowsUse ==
    \E c \in ShowCodes : LegacyCommand("shows use", <<c>>, shows_cmd_use(db, c))

AssetsAdd ==
    \E c \in ShowCodes, t \in LegacyAssetTypes, n \in LegacyAssetNames, now \in Times :
        /\ StoreRows(db) < MaxRows
        /\ LegacyCommand("assets add", <<c>>, assets_cmd_add(db, c, t, n, now))

ShotsAdd ==
    \E c \in ShowCodes, code \in LegacyShotCodes, now \in Times :
        /\ StoreRows(db) < MaxRows
        /\ LegacyCommand("shots add", <<c>>, shots_cmd_add(db, c, code, now))

TasksAdd ==
    \E t \in TargetIds(db), n \in LegacyTaskNames, now \in Times :
        /\ StoreRows(db) < MaxRows
        /\ LegacyCommand("tasks add", <<t>>, tasks_cmd_add(db, t, n, now))

\* one version of a kind per target
VersionsNew ==
    \E t \in TargetIds(db), k \in Kinds, now \in Times :
        /\ StoreRows(db) < MaxRows
        /\ ~\E v \in db.versions : v.target_id = t /\ v.kind = k
        /\ LegacyCommand("versions new", <<t>>, versions_cmd_new(db, t, k, now))

ShowsDelete ==
    \E c \in ShowCodes :
        LegacyCommand("shows delete", <<c>>, shows_cmd_delete(db, c))

ShowsRename ==
    \E old \in ShowCodes : \E new \in ShowCodes \ {old}, now \in Times :
        LegacyCommand("shows rename", <<old, new>>,
                      shows_cmd_rename(db, old, new, now))

ShowsInit ==
    /\ db = EmptyStore
    /\ purge = Idle
    /\ ret = NoRet
    /\ initOk = FALSE
    /\ loc = NoLoc

ShowsNext ==
    \/ ShowsCreate
    \/ ShowsUse
    \/ AssetsAdd
    \/ ShotsAdd
    \/ TasksAdd
    \/ VersionsNew
    \/ ShowsDelete
    \/ ShowsRename

SpecShows == ShowsInit /\ [][ShowsNext]_vars

\* the command that just ended wrote the store
LegacySaved(op) == ret.op = op /\ ret.status = "ok"

\* C24: after `shows delete` of the show that is the current show, load_db
\* reports no current show and the deleted code is not among the shows.
C24_DeleteClearsCurrent ==
    (LegacySaved("shows delete") /\ ret.pre.current_show = <<ret.args[1]>>)
        => /\ load_db(db).current_show = <<>>
           /\ ret.args[1] \notin DOMAIN load_db(db).shows

\* the records of dict d that belong to show code
OfShow(d, code) == { k \in DOMAIN d : d[k].show_code = code }

\* C25: after `shows delete X`, load_db holds no asset and no shot of show X,
\* no task list keyed by the id of an asset or shot of X, and no version
\* whose show_code is X.
C25_DeleteCascades ==
    LegacySaved("shows delete") =>
        LET X == ret.args[1]
            data == load_db(db)
        IN  /\ OfShow(data.assets, X) = {}
            /\ OfShow(data.shots, X) = {}
            /\ DOMAIN data.tasks
                 \cap (OfShow(ret.pre.assets, X) \cup OfShow(ret.pre.shots, X)) = {}
            /\ OfShow(data.versions, X) = {}

\* C26: round trip.  load_db after save_db(data) returns the shows, assets,
\* shots, versions and per-target task lists of data, its config entries
\* (the current_show entry is written from data["current_show"]) and a
\* current_show equal to data["current_show"].
C26_RoundTrip ==
    ret.status = "ok" /\ ret.op # "cmd" /\ "saved" \in DOMAIN ret =>
        LET data == ret.saved[1]
            loaded == load_db(db)
            others(cfg) == Restrict(cfg, DOMAIN cfg \ {"current_show"})
        IN  /\ loaded.shows = data.shows
            /\ loaded.assets = data.assets
            /\ loaded.shots = data.shots
            /\ loaded.versions = data.versions
            /\ loaded.tasks = data.tasks
            /\ others(loaded.config) = others(data.config)
            /\ loaded.current_show = data.current_show

\* C28: after `shows rename OLD NEW`, every asset and shot of the show carries
\* show_code NEW and an id built from NEW; every task key and every version's
\* target_id that named an asset or shot of OLD names an asset or shot there
\* is, every such version's version_id is built from that target_id; the
\* records of other shows are as they were.
C28_RenameKeepsReferences ==
    LegacySaved("shows rename") =>
        LET old_code == ret.args[1]
            new_code == ret.args[2]
            pre == ret.pre
            data == load_db(db)
            targets == DOMAIN data.assets \cup DOMAIN data.shots
            was_old == OfShow(pre.assets, old_code) \cup OfShow(pre.shots, old_code)
            other(d) == Restrict(d, DOMAIN d \ (OfShow(d, old_code) \cup OfShow(d, new_code)))
        IN  /\ OfShow(data.assets, old_code) = {} /\ OfShow(data.shots, old_code) = {}
            /\ Cardinality(OfShow(data.assets, new_code)) = Cardinality(OfShow(pre.assets, old_code))
            /\ Cardinality(OfShow(data.shots, new_code)) = Cardinality(OfShow(pre.shots, old_code))
            /\ \A k \in OfShow(data.assets, new_code) \cup OfShow(data.shots, new_code) :
                   startswith(k, new_code \o <<"_">>)
            /\ \A k \in DOMAIN pre.tasks :
                   k \in was_old =>
                       \E n \in DOMAIN data.tasks \cap targets :
                           data.tasks[n] = pre.tasks[k]
            /\ DOMAIN data.tasks \cap was_old = {}
            /\ \A v \in Values(data.versions) :
                   v.show_code = new_code =>
                       /\ v.target_id \in targets
                       /\ startswith(v.version_id, v.target_id \o <<"_">>)
            /\ other(data.assets) = other(pre.assets)
            /\ other(data.shots) = other(pre.shots)
            /\ other(data.versions) = other(pre.versions)
            /\ Restrict(data.shows, DOMAIN data.shows \ {new_code})
                 = Restrict(pre.shows, DOMAIN pre.shows \ {old_code})

====
